---- MODULE Spec2Model ----
(***************************************************************************)
(* Behaviour-inference and adaptive-policy loop of backend/main.py:        *)
(* the per-user StudentModel, the 10-frame smoothing window, the           *)
(* intervention and logging gates of analyze_focus, the event classifier,  *)
(* the decision log and the focus-plan adapter.                            *)
(*                                                                         *)
(* Python dicts are modelled as functions whose DOMAIN is the set of keys  *)
(* present, so that d.get(k, default), "k in d" and the KeyError of d[k]   *)
(* are all expressible.  Wall-clock time is an integer number of seconds.  *)
(* Ratios of the window (count / len, len <= 10) are kept exact as         *)
(* multiples of 1/LevelScale.                                              *)
(***************************************************************************)
EXTENDS Integers, Sequences, FiniteSets, TLC

VARIABLES STUDENT_MODELS, LEARNING_EVENTS, DECISION_LOGS, next_uuid, now,
          response, request_plan,
          pending, WORLD_PLAYERS, WORLD_CONNECTIONS, sockets

vars == <<STUDENT_MODELS, LEARNING_EVENTS, DECISION_LOGS, next_uuid, now,
          response, request_plan,
          pending, WORLD_PLAYERS, WORLD_CONNECTIONS, sockets>>

\* the requests accepted and not yet run by the event loop
in_flight == <<pending>>

\* the stores and the sockets of the multiplayer world
world_vars == <<WORLD_PLAYERS, WORLD_CONNECTIONS, sockets>>

(***************************************************************************)
(* Bounds of the model.                                                    *)
(***************************************************************************)
\* epoch seconds at start-up: far larger than any cooldown, as a real clock is
StartTime == 1000
\* completed analyze_focus ticks per user in Spec
MaxRequests == 4
\* completed analyze_focus ticks per user in SpecCore
MaxTicks == 8
\* completed analyze_focus ticks per user in SpecWindow
MaxFrames == 12
\* seconds between two frames at the steady cadence of SpecWindow
FrameCadence == 1
\* seconds of clock covered by Spec
Horizon == 12
\* seconds of clock covered by SpecPlan
PlanHorizon == 180
\* Decisions per user in SpecPlan
MaxDecisions == 3
\* analyze_focus ticks per user in SpecPlan
MaxPlanTicks == 4

Users == {"u1", "u2"}
CoreUsers == {"u1"}
\* seconds elapsing between two requests
Deltas == {0, 4}
PlanDeltas == {0, 60, 120}
\* goal_minutes of the focus-plan requests
PlanGoals == {5, 60}

(***************************************************************************)
(* Python values.                                                          *)
(***************************************************************************)
None == "None"

\* d.get(k, default)
Get(d, k, default) == IF k \in DOMAIN d THEN d[k] ELSE default

\* d[k] = v
Put(d, k, v) == [x \in (DOMAIN d) \cup {k} |-> IF x = k THEN v ELSE d[x]]

\* s[-n:]
LastN(s, n) == IF Len(s) <= n THEN s ELSE SubSeq(s, Len(s) - n + 1, Len(s))


Min(a, b) == IF a <= b THEN a ELSE b
Max(a, b) == IF a >= b THEN a ELSE b

\* lcm(1..10): count/len for len <= 10 is an exact multiple of 1/LevelScale
LevelScale == 2520

(***************************************************************************)
(* class LearningEventType                                                 *)
(***************************************************************************)
SUSTAINED_FOCUS == "sustained_focus"
SHALLOW_ENGAGEMENT == "shallow_engagement"
COGNITIVE_OVERLOAD == "cognitive_overload"
DISTRACTION_PHONE == "distraction_phone"
DISTRACTION_ENVIRONMENT == "distraction_environment"
RECOVERY == "recovery"

\* len([e for e in events if "distraction" in (e.get("event_type") or "")])
CountDistractionEvents(events) ==
    Cardinality({i \in 1..Len(events) :
                    events[i].event_type \in {DISTRACTION_PHONE, DISTRACTION_ENVIRONMENT}})

(***************************************************************************)
(* Intervention strings of analyze_focus.                                  *)
(***************************************************************************)
MsgLookingAway == "Hey! I noticed you might be looking away. Let's refocus!"
MsgBreak == "You've been distracted a few times. Want to take a 5-minute break?"
MsgTired == "I notice you might be getting tired. A short break could help you focus better."
MsgSimplify == "Let's break this down into smaller pieces. What part would you like to focus on?"

\* LEARNING_EVENTS.get(user_id, []), DECISION_LOGS.get(user_id, [])
EventsOf(ev, u) == Get(ev, u, <<>>)
LogsOf(dl, u) == Get(dl, u, <<>>)

\* ClassifyEvent with the sustained-focus rule tried before the overload rule
ClassifyEvent_FocusBeforeOverload(history, signals, timestamp) ==
    LET face_present == Get(signals, "face_present", TRUE)
        eyes_open == Get(signals, "eyes_open", TRUE)
        gaze_stable == Get(signals, "gaze_stable", TRUE)
        distraction_level == Get(signals, "distraction_level", 0)
        time_on_content == Get(signals, "time_on_content", 0)
        interaction_count == Get(signals, "interaction_count", 0)
        base == [timestamp |-> timestamp, event_type |-> None,
                 evidence |-> signals, confidence |-> 0,
                 should_intervene |-> FALSE, intervention_type |-> None]
        ev == IF ~face_present
                THEN [base EXCEPT !.event_type = DISTRACTION_ENVIRONMENT,
                                  !.confidence = 90,
                                  !.should_intervene = (2 * distraction_level > LevelScale),
                                  !.intervention_type = "gentle_refocus"]
              ELSE IF gaze_stable /\ eyes_open /\ time_on_content > 30
                THEN [base EXCEPT !.event_type = SUSTAINED_FOCUS,
                                  !.confidence = 85]
              ELSE IF time_on_content > 120 /\ interaction_count = 0
                THEN [base EXCEPT !.event_type = COGNITIVE_OVERLOAD,
                                  !.confidence = 70,
                                  !.should_intervene = TRUE,
                                  !.intervention_type = "simplify_content"]
              ELSE IF time_on_content < 10 /\ gaze_stable
                THEN [base EXCEPT !.event_type = SHALLOW_ENGAGEMENT,
                                  !.confidence = 60]
              ELSE base
        recent_distractions == CountDistractionEvents(history)
    IN  IF recent_distractions > 0 /\ ev.event_type = SUSTAINED_FOCUS
          THEN [ev EXCEPT !.event_type = RECOVERY, !.confidence = 75]
          ELSE ev

\* ClassifyEvent taking a missing time_on_content for 30 (the value analyze_focus
\* passes) instead of 0
ClassifyEvent_TimeDefaultThirty(history, signals, timestamp) ==
    LET face_present == Get(signals, "face_present", TRUE)
        eyes_open == Get(signals, "eyes_open", TRUE)
        gaze_stable == Get(signals, "gaze_stable", TRUE)
        distraction_level == Get(signals, "distraction_level", 0)
        time_on_content == Get(signals, "time_on_content", 30)
        interaction_count == Get(signals, "interaction_count", 0)
        base == [timestamp |-> timestamp, event_type |-> None,
                 evidence |-> signals, confidence |-> 0,
                 should_intervene |-> FALSE, intervention_type |-> None]
        ev == IF ~face_present
                THEN [base EXCEPT !.event_type = DISTRACTION_ENVIRONMENT,
                                  !.confidence = 90,
                                  !.should_intervene = (2 * distraction_level > LevelScale),
                                  !.intervention_type = "gentle_refocus"]
              ELSE IF time_on_content > 120 /\ interaction_count = 0
                THEN [base EXCEPT !.event_type = COGNITIVE_OVERLOAD,
                                  !.confidence = 70,
                                  !.should_intervene = TRUE,
                                  !.intervention_type = "simplify_content"]
              ELSE IF time_on_content < 10 /\ gaze_stable
                THEN [base EXCEPT !.event_type = SHALLOW_ENGAGEMENT,
                                  !.confidence = 60]
              ELSE IF gaze_stable /\ eyes_open /\ time_on_content > 30
                THEN [base EXCEPT !.event_type = SUSTAINED_FOCUS,
                                  !.confidence = 85]
              ELSE base
        recent_distractions == CountDistractionEvents(history)
    IN  IF recent_distractions > 0 /\ ev.event_type = SUSTAINED_FOCUS
          THEN [ev EXCEPT !.event_type = RECOVERY, !.confidence = 75]
          ELSE ev

\* ClassifyEvent counting 30 seconds on the content as sustained focus
ClassifyEvent_FocusFromThirty(history, signals, timestamp) ==
    LET face_present == Get(signals, "face_present", TRUE)
        eyes_open == Get(signals, "eyes_open", TRUE)
        gaze_stable == Get(signals, "gaze_stable", TRUE)
        distraction_level == Get(signals, "distraction_level", 0)
        time_on_content == Get(signals, "time_on_content", 0)
        interaction_count == Get(signals, "interaction_count", 0)
        base == [timestamp |-> timestamp, event_type |-> None,
                 evidence |-> signals, confidence |-> 0,
                 should_intervene |-> FALSE, intervention_type |-> None]
        ev == IF ~face_present
                THEN [base EXCEPT !.event_type = DISTRACTION_ENVIRONMENT,
                                  !.confidence = 90,
                                  !.should_intervene = (2 * distraction_level > LevelScale),
                                  !.intervention_type = "gentle_refocus"]
              ELSE IF time_on_content > 120 /\ interaction_count = 0
                THEN [base EXCEPT !.event_type = COGNITIVE_OVERLOAD,
                                  !.confidence = 70,
                                  !.should_intervene = TRUE,
                                  !.intervention_type = "simplify_content"]
              ELSE IF time_on_content < 10 /\ gaze_stable
                THEN [base EXCEPT !.event_type = SHALLOW_ENGAGEMENT,
                                  !.confidence = 60]
              ELSE IF gaze_stable /\ eyes_open /\ time_on_content >= 30
                THEN [base EXCEPT !.event_type = SUSTAINED_FOCUS,
                                  !.confidence = 85]
              ELSE base
        recent_distractions == CountDistractionEvents(history)
    IN  IF recent_distractions > 0 /\ ev.event_type = SUSTAINED_FOCUS
          THEN [ev EXCEPT !.event_type = RECOVERY, !.confidence = 75]
          ELSE ev

(***************************************************************************)
(* AntiGravityOrchestrator.infer_learning_event: the event computed from   *)
(* the signals and the user's stored events.  Confidence in hundredths.    *)
(***************************************************************************)
ClassifyEvent(history, signals, timestamp) ==
    LET face_present == Get(signals, "face_present", TRUE)
        eyes_open == Get(signals, "eyes_open", TRUE)
        gaze_stable == Get(signals, "gaze_stable", TRUE)
        distraction_level == Get(signals, "distraction_level", 0)
        time_on_content == Get(signals, "time_on_content", 0)
        interaction_count == Get(signals, "interaction_count", 0)
        base == [timestamp |-> timestamp, event_type |-> None,
                 evidence |-> signals, confidence |-> 0,
                 should_intervene |-> FALSE, intervention_type |-> None]
        ev == IF ~face_present
                THEN [base EXCEPT !.event_type = DISTRACTION_ENVIRONMENT,
                                  !.confidence = 90,
                                  !.should_intervene = (2 * distraction_level > LevelScale),
                                  !.intervention_type = "gentle_refocus"]
              ELSE IF time_on_content > 120 /\ interaction_count = 0
                THEN [base EXCEPT !.event_type = COGNITIVE_OVERLOAD,
                                  !.confidence = 70,
                                  !.should_intervene = TRUE,
                                  !.intervention_type = "simplify_content"]
              ELSE IF time_on_content < 10 /\ gaze_stable
                THEN [base EXCEPT !.event_type = SHALLOW_ENGAGEMENT,
                                  !.confidence = 60]
              ELSE IF gaze_stable /\ eyes_open /\ time_on_content > 30
                THEN [base EXCEPT !.event_type = SUSTAINED_FOCUS,
                                  !.confidence = 85]
              ELSE base
        recent_distractions == CountDistractionEvents(history)
    IN  IF recent_distractions > 0 /\ ev.event_type = SUSTAINED_FOCUS
          THEN [ev EXCEPT !.event_type = RECOVERY, !.confidence = 75]
          ELSE ev

\* infer_learning_event keeping no limit on the history it inspects
infer_learning_event_WholeHistory(ev, u, signals, timestamp) ==
    LET event == ClassifyEvent(EventsOf(ev, u), signals, timestamp)
    IN  [event |-> event,
         LEARNING_EVENTS |-> Put(ev, u, Append(EventsOf(ev, u), event))]

\* infer_learning_event: classify against the last 10 stored events, store, return
infer_learning_event(ev, u, signals, timestamp) ==
    LET event == ClassifyEvent(LastN(EventsOf(ev, u), 10), signals, timestamp)
    IN  [event |-> event,
         LEARNING_EVENTS |-> Put(ev, u, Append(EventsOf(ev, u), event))]

\* log_decision appending the Decision to the list of every user that has one
log_decision_EveryList(dl, uuid, u, action, triggering_evidence, alternatives_considered, timestamp) ==
    LET decision == [id |-> uuid, timestamp |-> timestamp, action |-> action,
                     triggering_evidence |-> triggering_evidence,
                     alternatives_considered |-> alternatives_considered,
                     user_id |-> u]
        own == Put(dl, u, LogsOf(dl, u))
    IN  [DECISION_LOGS |-> [x \in DOMAIN own |-> Append(own[x], decision)],
         next_uuid |-> uuid + 1]

\* log_decision inserting the Decision at the head of the user's list
log_decision_AtHead(dl, uuid, u, action, triggering_evidence, alternatives_considered, timestamp) ==
    LET decision == [id |-> uuid, timestamp |-> timestamp, action |-> action,
                     triggering_evidence |-> triggering_evidence,
                     alternatives_considered |-> alternatives_considered,
                     user_id |-> u]
    IN  [DECISION_LOGS |-> Put(dl, u, <<decision>> \o LogsOf(dl, u)),
         next_uuid |-> uuid + 1]

(***************************************************************************)
(* AntiGravityOrchestrator.log_decision: append one Decision with a fresh  *)
(* id (uuid4, modelled by a counter) to the user's list.                   *)
(***************************************************************************)
log_decision(dl, uuid, u, action, triggering_evidence, alternatives_considered, timestamp) ==
    LET decision == [id |-> uuid, timestamp |-> timestamp, action |-> action,
                     triggering_evidence |-> triggering_evidence,
                     alternatives_considered |-> alternatives_considered,
                     user_id |-> u]
    IN  [DECISION_LOGS |-> Put(dl, u, Append(LogsOf(dl, u), decision)),
         next_uuid |-> uuid + 1]

(***************************************************************************)
(* AntiGravityOrchestrator.should_teach: the pair (should_teach, reason).  *)
(***************************************************************************)
ReasonOverload == "Cognitive overload detected - simplify before teaching"
ReasonDistracted == "Multiple distractions detected - wait for attention recovery"
ReasonFocus == "Student showing sustained focus - optimal teaching moment"
ReasonRecovered == "Student recovered attention - reinforce with teaching"
ReasonInsufficient == "Insufficient behavioral evidence for teaching readiness"

\* should_teach reading the last 10 events instead of the last 5
should_teach_LastTen(ev, u) ==
    LET events == LastN(EventsOf(ev, u), 10)
        types == {events[i].event_type : i \in 1..Len(events)}
    IN  IF COGNITIVE_OVERLOAD \in types THEN <<FALSE, ReasonOverload>>
        ELSE IF CountDistractionEvents(events) >= 2 THEN <<FALSE, ReasonDistracted>>
        ELSE IF SUSTAINED_FOCUS \in types THEN <<TRUE, ReasonFocus>>
        ELSE IF RECOVERY \in types THEN <<TRUE, ReasonRecovered>>
        ELSE <<FALSE, ReasonInsufficient>>

should_teach(ev, u) ==
    LET events == LastN(EventsOf(ev, u), 5)
        types == {events[i].event_type : i \in 1..Len(events)}
    IN  IF COGNITIVE_OVERLOAD \in types THEN <<FALSE, ReasonOverload>>
        ELSE IF CountDistractionEvents(events) >= 2 THEN <<FALSE, ReasonDistracted>>
        ELSE IF SUSTAINED_FOCUS \in types THEN <<TRUE, ReasonFocus>>
        ELSE IF RECOVERY \in types THEN <<TRUE, ReasonRecovered>>
        ELSE <<FALSE, ReasonInsufficient>>

(***************************************************************************)
(* AntiGravityOrchestrator.generate_focus_plan.  Confidence in tenths.     *)
(***************************************************************************)
NewPlan(model, uuid, u, goal_minutes, timestamp) ==
    LET avg_focus == Get(model, "preferred_work_duration", 25)
        distractions_today == Get(model, "distraction_count", 0)
        sessions_completed == Get(model, "sessions_completed", 0)
        base_duration == Min(avg_focus, goal_minutes)
        recommended_duration == IF distractions_today > 10
                                  THEN Max(10, base_duration - 10)
                                  ELSE base_duration
    IN  [id |-> uuid, user_id |-> u, created_at |-> timestamp,
         recommended_duration_minutes |-> recommended_duration,
         break_interval_minutes |-> recommended_duration,
         break_duration_minutes |-> IF recommended_duration >= 25 THEN 5 ELSE 3,
         goals |-> <<>>, adaptations |-> <<>>,
         confidence |-> IF sessions_completed > 0 THEN 7 ELSE 5]

\* alternatives_considered of the generate_focus_plan Decision
PlanAlternatives(goal_minutes) ==
    <<"Standard 25-minute plan",
      "Extended " \o ToString(goal_minutes) \o "-minute plan",
      "Short 10-minute starter plan">>

generate_focus_plan(sm, dl, uuid, u, goal_minutes, timestamp) ==
    LET model == Get(sm, u, <<>>)
        plan == NewPlan(model, uuid, u, goal_minutes, timestamp)
        evidence == [sessions_completed |-> Get(model, "sessions_completed", 0),
                     distractions_today |-> Get(model, "distraction_count", 0),
                     avg_focus |-> Get(model, "preferred_work_duration", 25)]
        logged == log_decision(dl, uuid + 1, u, "generate_focus_plan", evidence,
                               PlanAlternatives(goal_minutes), timestamp)
    IN  [plan |-> plan, DECISION_LOGS |-> logged.DECISION_LOGS,
         next_uuid |-> logged.next_uuid]

(***************************************************************************)
(* AntiGravityOrchestrator.adapt_plan.                                     *)
(***************************************************************************)
\* InAdaptCooldown with a one minute cooldown
InAdaptCooldown_OneMinute(current_plan, timestamp) ==
    LET adaptations == Get(current_plan, "adaptations", <<>>)
    IN  /\ Len(adaptations) > 0
        /\ timestamp - Get(adaptations[Len(adaptations)], "timestamp", timestamp) < 60

\* InAdaptCooldown measured on the oldest entry of plan.adaptations
InAdaptCooldown_OldestEntry(current_plan, timestamp) ==
    LET adaptations == Get(current_plan, "adaptations", <<>>)
    IN  /\ Len(adaptations) > 0
        /\ timestamp - Get(adaptations[1], "timestamp", timestamp) < 120

\* the 2 minute cooldown on the newest entry of plan.adaptations
InAdaptCooldown(current_plan, timestamp) ==
    LET adaptations == Get(current_plan, "adaptations", <<>>)
    IN  /\ Len(adaptations) > 0
        /\ timestamp - Get(adaptations[Len(adaptations)], "timestamp", timestamp) < 120

\* ChooseAdaptation without the floors and the cap on the new duration
ChooseAdaptation_Unclamped(current_plan, trigger_event, distraction_count, timestamp) ==
    LET distraction_type == Get(trigger_event, "distraction_type", None)
        event_type == Get(trigger_event, "event_type", None)
        original_duration == Get(current_plan, "recommended_duration_minutes", 25)
    IN  IF distraction_type = "phone_use"
          THEN [type |-> "reduce_focus_time",
                new_duration |-> original_duration - 5,
                new_break_interval |-> Min(original_duration - 5, 15),
                timestamp |-> timestamp]
        ELSE IF distraction_type = "looking_away" /\ distraction_count > 3
          THEN [type |-> "decompose_goal",
                new_duration |-> original_duration - 10,
                new_break_interval |-> Max(10, original_duration \div 2),
                timestamp |-> timestamp]
        ELSE IF event_type = COGNITIVE_OVERLOAD
          THEN [type |-> "simplify_tasks", timestamp |-> timestamp]
        ELSE IF event_type = SUSTAINED_FOCUS
          THEN [type |-> "extend_block",
                new_duration |-> original_duration + 5,
                timestamp |-> timestamp]
        ELSE [type |-> None]

\* ChooseAdaptation with the event-type rules tried before the distraction-type rules
ChooseAdaptation_EventFirst(current_plan, trigger_event, distraction_count, timestamp) ==
    LET distraction_type == Get(trigger_event, "distraction_type", None)
        event_type == Get(trigger_event, "event_type", None)
        original_duration == Get(current_plan, "recommended_duration_minutes", 25)
    IN  IF event_type = COGNITIVE_OVERLOAD
          THEN [type |-> "simplify_tasks", timestamp |-> timestamp]
        ELSE IF event_type = SUSTAINED_FOCUS
          THEN [type |-> "extend_block",
                new_duration |-> Min(original_duration + 5, 45),
                timestamp |-> timestamp]
        ELSE IF distraction_type = "phone_use"
          THEN [type |-> "reduce_focus_time",
                new_duration |-> Max(10, original_duration - 5),
                new_break_interval |-> Min(Max(10, original_duration - 5), 15),
                timestamp |-> timestamp]
        ELSE IF distraction_type = "looking_away" /\ distraction_count > 3
          THEN [type |-> "decompose_goal",
                new_duration |-> Max(15, original_duration - 10),
                new_break_interval |-> Max(10, original_duration \div 2),
                timestamp |-> timestamp]
        ELSE [type |-> None]

\* ChooseAdaptation with the phone_use break interval set to the new duration
\* (without the limit of 15)
ChooseAdaptation_BreakIsDuration(current_plan, trigger_event, distraction_count, timestamp) ==
    LET distraction_type == Get(trigger_event, "distraction_type", None)
        event_type == Get(trigger_event, "event_type", None)
        original_duration == Get(current_plan, "recommended_duration_minutes", 25)
    IN  IF distraction_type = "phone_use"
          THEN [type |-> "reduce_focus_time",
                new_duration |-> Max(10, original_duration - 5),
                new_break_interval |-> Max(10, original_duration - 5),
                timestamp |-> timestamp]
        ELSE IF distraction_type = "looking_away" /\ distraction_count > 3
          THEN [type |-> "decompose_goal",
                new_duration |-> Max(15, original_duration - 10),
                new_break_interval |-> Max(10, original_duration \div 2),
                timestamp |-> timestamp]
        ELSE IF event_type = COGNITIVE_OVERLOAD
          THEN [type |-> "simplify_tasks", timestamp |-> timestamp]
        ELSE IF event_type = SUSTAINED_FOCUS
          THEN [type |-> "extend_block",
                new_duration |-> Min(original_duration + 5, 45),
                timestamp |-> timestamp]
        ELSE [type |-> None]

\* ChooseAdaptation with the looking_away rule matching whatever the distraction_count
ChooseAdaptation_AnyLookingAway(current_plan, trigger_event, distraction_count, timestamp) ==
    LET distraction_type == Get(trigger_event, "distraction_type", None)
        event_type == Get(trigger_event, "event_type", None)
        original_duration == Get(current_plan, "recommended_duration_minutes", 25)
    IN  IF distraction_type = "phone_use"
          THEN [type |-> "reduce_focus_time",
                new_duration |-> Max(10, original_duration - 5),
                new_break_interval |-> Min(Max(10, original_duration - 5), 15),
                timestamp |-> timestamp]
        ELSE IF distraction_type = "looking_away"
          THEN [type |-> "decompose_goal",
                new_duration |-> Max(15, original_duration - 10),
                new_break_interval |-> Max(10, original_duration \div 2),
                timestamp |-> timestamp]
        ELSE IF event_type = COGNITIVE_OVERLOAD
          THEN [type |-> "simplify_tasks", timestamp |-> timestamp]
        ELSE IF event_type = SUSTAINED_FOCUS
          THEN [type |-> "extend_block",
                new_duration |-> Min(original_duration + 5, 45),
                timestamp |-> timestamp]
        ELSE [type |-> None]

\* ChooseAdaptation with the phone_use rule setting the break interval to 15 whatever
\* the new duration
ChooseAdaptation_BreakFifteen(current_plan, trigger_event, distraction_count, timestamp) ==
    LET distraction_type == Get(trigger_event, "distraction_type", None)
        event_type == Get(trigger_event, "event_type", None)
        original_duration == Get(current_plan, "recommended_duration_minutes", 25)
    IN  IF distraction_type = "phone_use"
          THEN [type |-> "reduce_focus_time",
                new_duration |-> Max(10, original_duration - 5),
                new_break_interval |-> 15,
                timestamp |-> timestamp]
        ELSE IF distraction_type = "looking_away" /\ distraction_count > 3
          THEN [type |-> "decompose_goal",
                new_duration |-> Max(15, original_duration - 10),
                new_break_interval |-> Max(10, original_duration \div 2),
                timestamp |-> timestamp]
        ELSE IF event_type = COGNITIVE_OVERLOAD
          THEN [type |-> "simplify_tasks", timestamp |-> timestamp]
        ELSE IF event_type = SUSTAINED_FOCUS
          THEN [type |-> "extend_block",
                new_duration |-> Min(original_duration + 5, 45),
                timestamp |-> timestamp]
        ELSE [type |-> None]

\* the rule chain: the Adaptation chosen for the trigger (type None: no rule matched)
ChooseAdaptation(current_plan, trigger_event, distraction_count, timestamp) ==
    LET distraction_type == Get(trigger_event, "distraction_type", None)
        event_type == Get(trigger_event, "event_type", None)
        original_duration == Get(current_plan, "recommended_duration_minutes", 25)
    IN  IF distraction_type = "phone_use"
          THEN [type |-> "reduce_focus_time",
                new_duration |-> Max(10, original_duration - 5),
                new_break_interval |-> Min(Max(10, original_duration - 5), 15),
                timestamp |-> timestamp]
        ELSE IF distraction_type = "looking_away" /\ distraction_count > 3
          THEN [type |-> "decompose_goal",
                new_duration |-> Max(15, original_duration - 10),
                new_break_interval |-> Max(10, original_duration \div 2),
                timestamp |-> timestamp]
        ELSE IF event_type = COGNITIVE_OVERLOAD
          THEN [type |-> "simplify_tasks", timestamp |-> timestamp]
        ELSE IF event_type = SUSTAINED_FOCUS
          THEN [type |-> "extend_block",
                new_duration |-> Min(original_duration + 5, 45),
                timestamp |-> timestamp]
        ELSE [type |-> None]

\* for task in tasks: if priority > 2: priority -= 1
DemoteTasks(tasks) ==
    [i \in 1..Len(tasks) |->
        IF Get(tasks[i], "priority", 3) > 2
          THEN Put(tasks[i], "priority", Get(tasks[i], "priority", 3) - 1)
          ELSE tasks[i]]

\* the plan fields written by the chosen rule (before the append)
ApplyAdaptation(current_plan, adaptation) ==
    LET p1 == IF "new_duration" \in DOMAIN adaptation
                THEN Put(current_plan, "recommended_duration_minutes", adaptation.new_duration)
                ELSE current_plan
        p2 == IF "new_break_interval" \in DOMAIN adaptation
                THEN Put(p1, "break_interval_minutes", adaptation.new_break_interval)
                ELSE p1
    IN  IF adaptation.type = "simplify_tasks" /\ "tasks" \in DOMAIN p2
          THEN Put(p2, "tasks", DemoteTasks(p2.tasks))
          ELSE p2

\* alternatives_considered of every adapt_plan Decision
AdaptAlternatives == <<"No change", "End session early", "Switch modality">>

\* adapt_plan appending the Adaptation without logging a Decision
adapt_plan_Unlogged(sm, dl, uuid, u, current_plan, trigger_event, timestamp) ==
    LET unchanged == [plan |-> current_plan, DECISION_LOGS |-> dl,
                      next_uuid |-> uuid, raised |-> FALSE]
        distraction_count == Get(Get(sm, u, <<>>), "distraction_count", 0)
        adaptation == ChooseAdaptation(current_plan, trigger_event,
                                       distraction_count, timestamp)
    IN  IF InAdaptCooldown(current_plan, timestamp) THEN unchanged
        ELSE IF adaptation.type = None THEN unchanged
        ELSE LET changed == ApplyAdaptation(current_plan, adaptation)
             IN  IF "adaptations" \notin DOMAIN changed
                   THEN [unchanged EXCEPT !.plan = changed, !.raised = TRUE]
                   ELSE [unchanged EXCEPT !.plan = Put(changed, "adaptations",
                                              Append(changed.adaptations, adaptation))]

\* raised: current_plan["adaptations"] is a KeyError when the key is absent
adapt_plan(sm, dl, uuid, u, current_plan, trigger_event, timestamp) ==
    LET unchanged == [plan |-> current_plan, DECISION_LOGS |-> dl,
                      next_uuid |-> uuid, raised |-> FALSE]
        distraction_count == Get(Get(sm, u, <<>>), "distraction_count", 0)
        adaptation == ChooseAdaptation(current_plan, trigger_event,
                                       distraction_count, timestamp)
    IN  IF InAdaptCooldown(current_plan, timestamp) THEN unchanged
        ELSE IF adaptation.type = None THEN unchanged
        ELSE LET changed == ApplyAdaptation(current_plan, adaptation)
             IN  IF "adaptations" \notin DOMAIN changed
                   THEN [unchanged EXCEPT !.plan = changed, !.raised = TRUE]
                   ELSE LET logged == log_decision(dl, uuid, u,
                                          "adapt_plan_" \o adaptation.type,
                                          trigger_event, AdaptAlternatives, timestamp)
                        IN  [plan |-> Put(changed, "adaptations",
                                          Append(changed.adaptations, adaptation)),
                             DECISION_LOGS |-> logged.DECISION_LOGS,
                             next_uuid |-> logged.next_uuid,
                             raised |-> FALSE]

(***************************************************************************)
(* analyze_focus, POST /api/focus/analyze.                                 *)
(***************************************************************************)
\* current_frame_state for a frame with (face) or without a detected face
FrameState(face) ==
    [is_distracted |-> ~face,
     type |-> IF face THEN None ELSE "looking_away",
     face_present |-> face]

\* the student model analyze_focus creates for a user it has not seen
FreshModel ==
    [distraction_count |-> 0, total_focus_time |-> 0, patterns |-> <<>>,
     status_history |-> <<>>]

\* PushFrame evicting the newest entry instead of the oldest (pop() for pop(0))
PushFrame_PopsNewest(history, state) ==
    LET appended == Append(history, state)
    IN  IF Len(appended) > 10 THEN SubSeq(appended, 1, 10) ELSE appended

\* history.append(state); if len(history) > 10: history.pop(0)
PushFrame(history, state) ==
    LET appended == Append(history, state)
    IN  IF Len(appended) > 10 THEN Tail(appended) ELSE appended

\* len(face_frames), len(distracted_frames)
CountFaceFrames(history) ==
    Cardinality({i \in 1..Len(history) : Get(history[i], "face_present", FALSE)})
CountDistractedFrames(history) ==
    Cardinality({i \in 1..Len(history) : history[i].is_distracted})

\* FaceMajority with a strict comparison (face_ratio > 0.6)
FaceMajority_Strict(history) ==
    Len(history) > 0 /\ 10 * CountFaceFrames(history) > 6 * Len(history)

\* face_ratio >= 0.6, with face_ratio = len(face_frames) / len(history)
FaceMajority(history) ==
    Len(history) > 0 /\ 10 * CountFaceFrames(history) >= 6 * Len(history)

\* 1.0 - face_ratio (0.0 for an empty history), in 1/LevelScale
DistractionLevel(history) ==
    IF Len(history) = 0 THEN 0
    ELSE LevelScale - (LevelScale * CountFaceFrames(history)) \div Len(history)

\* VoteIntervention choosing the message on the count of distracted frames alone,
\* whatever the face ratio
VoteIntervention_IgnoresMajority(history) ==
    IF CountDistractedFrames(history) >= 3 THEN MsgLookingAway ELSE None

\* the intervention chosen by the vote, before the cooldown gate
VoteIntervention(history) ==
    IF FaceMajority(history) THEN None
    ELSE IF CountDistractedFrames(history) >= 3 THEN MsgLookingAway
    ELSE None

\* ShouldShowIntervention with the cooldown already over at exactly 8 seconds (>=)
ShouldShow_AtEight(status, type, last_status, last_type, last_time, current_time) ==
    /\ status
    /\ \/ status # last_status
       \/ type # last_type
       \/ current_time - last_time >= 8

\* ShouldShowIntervention with the logging interval (20 s) used as the cooldown
ShouldShow_LogInterval(status, type, last_status, last_type, last_time, current_time) ==
    /\ status
    /\ \/ status # last_status
       \/ type # last_type
       \/ current_time - last_time > 20

\* should_show_intervention
ShouldShowIntervention(status, type, last_status, last_type, last_time, current_time) ==
    /\ status
    /\ \/ status # last_status
       \/ type # last_type
       \/ current_time - last_time > 8

\* ShouldLog with the persistence interval already over at exactly 20 seconds (>=)
ShouldLog_AtTwenty(final_status, last_status, last_log_time, current_time) ==
    \/ final_status # last_status
    \/ final_status /\ current_time - last_log_time >= 20

\* should_log
ShouldLog(final_status, last_status, last_log_time, current_time) ==
    \/ final_status # last_status
    \/ final_status /\ current_time - last_log_time > 20

\* EscalateIntervention with the fallback from the fifth distraction on (count >= 5)
EscalateIntervention_AtFive(intervention, count, learning_event) ==
    LET fallback == IF count >= 5 /\ intervention = None THEN MsgBreak ELSE intervention
    IN  IF learning_event.intervention_type = "suggest_break" THEN MsgTired
        ELSE IF learning_event.intervention_type = "simplify_content" THEN MsgSimplify
        ELSE fallback

\* the intervention after the frequency fallback and the learning-event overrides
EscalateIntervention(intervention, count, learning_event) ==
    LET fallback == IF count > 5 /\ intervention = None THEN MsgBreak ELSE intervention
    IN  IF learning_event.intervention_type = "suggest_break" THEN MsgTired
        ELSE IF learning_event.intervention_type = "simplify_content" THEN MsgSimplify
        ELSE fallback

\* alternatives_considered of the detect_distraction Decision
DetectAlternatives ==
    <<"Ignore momentary flicker", "Wait for pattern", "Immediate intervention">>

\* the except branch: the response of a request that raised
FallbackResponse(u, current_time) ==
    [op |-> "analyze_focus", user_id |-> u, time |-> current_time, error |-> TRUE,
     distraction_detected |-> FALSE, distraction_type |-> None,
     distraction_level |-> 0, intervention |-> None, faces_detected |-> 0]

\* distraction_level of the single frame: 0.8 without a face, 0.0 with one
RawLevel(face) == IF face THEN 0 ELSE (8 * LevelScale) \div 10

\* the loop over faces reads gray and eye_cascade, which nothing defines:
\* a frame with a face raises NameError before the student model is touched
RaisesInFaceLoop(face) == face

(***************************************************************************)
(* The body of analyze_focus from "Update student model" to the return,    *)
(* for a frame whose detection found a face (face) or none, at clock       *)
(* reading current_time.  The result holds the new value of every store    *)
(* and the response.                                                       *)
(***************************************************************************)
AnalyzeBody(sm, ev, dl, uuid, u, face, current_time) ==
    LET sm0 == IF u \in DOMAIN sm THEN sm ELSE Put(sm, u, FreshModel)
    IN  IF "status_history" \notin DOMAIN sm0[u]
          \* STUDENT_MODELS[user_id]["status_history"]: KeyError, caught below
          THEN [STUDENT_MODELS |-> sm0, LEARNING_EVENTS |-> ev, DECISION_LOGS |-> dl,
                next_uuid |-> uuid, response |-> FallbackResponse(u, current_time)]
        ELSE
    LET history == PushFrame(sm0[u].status_history, FrameState(face))
        final_distraction_status == ~FaceMajority(history)
        final_distraction_type == IF final_distraction_status THEN "looking_away" ELSE None
        behavioral_signals ==
            [face_present |-> face,
             gaze_stable |-> ~final_distraction_status,
             distraction_level |-> DistractionLevel(history),
             time_on_content |-> Get(sm0[u], "current_content_time", 30),
             interaction_count |-> Get(sm0[u], "interaction_count", 1)]
        inferred == infer_learning_event(ev, u, behavioral_signals, current_time)
        learning_event == inferred.event
        m0 == Put(sm0[u], "status_history", history)
        last_log_time == Get(m0, "last_log_time", 0)
        last_intervention_time == Get(m0, "last_intervention_time", 0)
        last_intervention_type == Get(m0, "last_intervention_type", None)
        last_status == Get(m0, "last_distraction_status", FALSE)
        should_show_intervention ==
            ShouldShowIntervention(final_distraction_status, final_distraction_type,
                                   last_status, last_intervention_type,
                                   last_intervention_time, current_time)
        gated == IF final_distraction_status /\ ~should_show_intervention
                   THEN None ELSE VoteIntervention(history)
        should_log == ShouldLog(final_distraction_status, last_status,
                                last_log_time, current_time)
        m1 == Put(m0, "last_distraction_status", final_distraction_status)
        m2 == IF final_distraction_status /\ should_show_intervention
                THEN Put(Put(m1, "last_intervention_time", current_time),
                         "last_intervention_type", final_distraction_type)
                ELSE m1
        \* the distracted branch
        m3 == Put(m2, "distraction_count", m2.distraction_count + 1)
        logged == log_decision(dl, uuid, u, "detect_distraction", behavioral_signals,
                               DetectAlternatives, current_time)
        m4 == Put(m3, "last_log_time", current_time)
        sm4 == Put(sm0, u, m4)
        generated == IF "current_focus_plan" \in DOMAIN m4
                       THEN [plan |-> m4.current_focus_plan,
                             DECISION_LOGS |-> logged.DECISION_LOGS,
                             next_uuid |-> logged.next_uuid]
                       ELSE generate_focus_plan(sm4, logged.DECISION_LOGS,
                                                logged.next_uuid, u, 25, current_time)
        trigger_event == [event_type |-> learning_event.event_type,
                          distraction_type |-> final_distraction_type,
                          distraction_level |-> behavioral_signals.distraction_level,
                          distraction_count |-> m4.distraction_count]
        adapted == adapt_plan(sm4, generated.DECISION_LOGS, generated.next_uuid, u,
                              generated.plan, trigger_event, current_time)
        m5 == Put(m4, "current_focus_plan", adapted.plan)
        \* the focused branch
        m6 == Put(m2, "total_focus_time", Get(m2, "total_focus_time", 0) + 3)
        mEnd == IF final_distraction_status
                  THEN (IF should_log THEN m5 ELSE m3)
                  ELSE m6
        dlEnd == IF final_distraction_status /\ should_log
                   THEN adapted.DECISION_LOGS ELSE dl
        uuidEnd == IF final_distraction_status /\ should_log
                     THEN adapted.next_uuid ELSE uuid
        intervention == IF final_distraction_status
                          THEN EscalateIntervention(gated, mEnd.distraction_count,
                                                    learning_event)
                          ELSE gated
    IN  [STUDENT_MODELS |-> Put(sm0, u, mEnd),
         LEARNING_EVENTS |-> inferred.LEARNING_EVENTS,
         DECISION_LOGS |-> dlEnd,
         next_uuid |-> uuidEnd,
         response |->
            [op |-> "analyze_focus", user_id |-> u, time |-> current_time,
             distraction_detected |-> final_distraction_status,
             distraction_type |-> final_distraction_type,
             distraction_level |-> RawLevel(face),
             intervention |-> intervention,
             faces_detected |-> IF face THEN 1 ELSE 0,
             learning_event |-> learning_event,
             should_intervene |-> learning_event.should_intervene,
             teaching_ready |-> should_teach(inferred.LEARNING_EVENTS, u)[1],
             plan_adapted |-> "current_focus_plan" \in DOMAIN mEnd
                              /\ Len(Get(mEnd.current_focus_plan, "adaptations", <<>>)) > 0]]

\* the whole handler: detection result in, stores and response out
analyze_focus(sm, ev, dl, uuid, u, face, current_time) ==
    IF RaisesInFaceLoop(face)
      THEN [STUDENT_MODELS |-> sm, LEARNING_EVENTS |-> ev, DECISION_LOGS |-> dl,
            next_uuid |-> uuid, response |-> FallbackResponse(u, current_time)]
      ELSE AnalyzeBody(sm, ev, dl, uuid, u, face, current_time)

(***************************************************************************)
(* get_student_model, GET /api/focus/student-model/{user_id}: creates a    *)
(* model that has no status_history key.                                   *)
(***************************************************************************)
QueriedModel ==
    [distraction_count |-> 0, total_focus_time |-> 0, patterns |-> <<>>,
     preferred_work_duration |-> 25, sessions_completed |-> 0,
     strength_areas |-> <<>>, weakness_areas |-> <<>>,
     time_of_day_effectiveness |-> <<>>]

get_student_model(sm, u) == IF u \in DOMAIN sm THEN sm ELSE Put(sm, u, QueriedModel)

\* the connections the world socket can hold at once
Sockets == {"s1", "s2"}

\* no request accepted, no world socket connected
NothingInFlight ==
    /\ pending = <<>>
    /\ WORLD_PLAYERS = <<>>
    /\ WORLD_CONNECTIONS = <<>>
    /\ sockets = [s \in Sockets |-> [state |-> "closed"]]

(***************************************************************************)
(* State after start-up: every module-level store is empty.                *)
(***************************************************************************)
Init ==
    /\ STUDENT_MODELS = <<>>
    /\ LEARNING_EVENTS = <<>>
    /\ DECISION_LOGS = <<>>
    /\ next_uuid = 1
    /\ now = StartTime
    /\ response = [op |-> "none"]
    /\ request_plan = <<>>
    /\ NothingInFlight

Install(result) ==
    /\ STUDENT_MODELS' = result.STUDENT_MODELS
    /\ LEARNING_EVENTS' = result.LEARNING_EVENTS
    /\ DECISION_LOGS' = result.DECISION_LOGS
    /\ next_uuid' = result.next_uuid
    /\ response' = result.response

\* a request to /api/focus/analyze arriving dt seconds after the previous request
AnalyzeFocus(u, face, dt) ==
    /\ Len(EventsOf(LEARNING_EVENTS, u)) < MaxRequests
    /\ now + dt <= StartTime + Horizon
    /\ now' = now + dt
    /\ Install(analyze_focus(STUDENT_MODELS, LEARNING_EVENTS, DECISION_LOGS,
                             next_uuid, u, face, now + dt))
    /\ UNCHANGED request_plan
    /\ UNCHANGED <<in_flight, world_vars>>

GetStudentModel(u) ==
    /\ STUDENT_MODELS' = get_student_model(STUDENT_MODELS, u)
    /\ response' = [op |-> "get_student_model", user_id |-> u, time |-> now]
    /\ UNCHANGED <<LEARNING_EVENTS, DECISION_LOGS, next_uuid, now, request_plan>>
    /\ UNCHANGED <<in_flight, world_vars>>

Next ==
    \/ \E u \in Users, face \in BOOLEAN, dt \in Deltas : AnalyzeFocus(u, face, dt)
    \/ \E u \in Users : GetStudentModel(u)

Spec == Init /\ [][Next]_vars

(***************************************************************************)
(* SpecCore: the analysis pipeline driven directly with the detection      *)
(* result (the analyze_frame interface: signals in, stable state out), so  *)
(* that frames with a face reach the window.                               *)
(***************************************************************************)
AnalyzeFrame(u, face, dt, max_ticks) ==
    /\ Len(EventsOf(LEARNING_EVENTS, u)) < max_ticks
    /\ now' = now + dt
    /\ Install(AnalyzeBody(STUDENT_MODELS, LEARNING_EVENTS, DECISION_LOGS,
                           next_uuid, u, face, now + dt))
    /\ UNCHANGED request_plan
    /\ UNCHANGED <<in_flight, world_vars>>

NextCore ==
    \E u \in CoreUsers, face \in BOOLEAN, dt \in Deltas : AnalyzeFrame(u, face, dt, MaxTicks)

SpecCore == Init /\ [][NextCore]_vars

(***************************************************************************)
(* SpecWindow: the same pipeline at a steady frame cadence, long enough    *)
(* for the window to fill and slide.                                       *)
(***************************************************************************)
NextWindow ==
    \E u \in CoreUsers, face \in BOOLEAN : AnalyzeFrame(u, face, FrameCadence, MaxFrames)

SpecWindow == Init /\ [][NextWindow]_vars

(***************************************************************************)
(* Vocabulary of the properties.                                           *)
(***************************************************************************)
HistoryOf(u) == STUDENT_MODELS[u].status_history

HasHistory(u) == u \in DOMAIN STUDENT_MODELS /\ "status_history" \in DOMAIN STUDENT_MODELS[u]

\* the frames pushed for u so far, in arrival order: every completed tick
\* stores one learning event whose evidence carries the frame's face_present
PushedFrames(u) ==
    LET ev == EventsOf(LEARNING_EVENTS, u)
    IN  [i \in 1..Len(ev) |-> FrameState(ev[i].evidence.face_present)]

FaceCount(h) == Cardinality({i \in 1..Len(h) : h[i].face_present})

\* the last response is that of a completed tick
TickResponse == response.op = "analyze_focus" /\ "error" \notin DOMAIN response

(***************************************************************************)
(* C1: for every user the status_history holds at most 10 frames and is    *)
(* exactly the most recent min(n, 10) of the n frames pushed so far, in    *)
(* arrival order (the oldest is evicted first).                            *)
(***************************************************************************)
C1_HistoryIsLastTen ==
    \A u \in Users :
        HasHistory(u) =>
            /\ Len(HistoryOf(u)) <= 10
            /\ Len(HistoryOf(u)) = Min(Len(PushedFrames(u)), 10)
            /\ \A i \in 1..Len(HistoryOf(u)) :
                  HistoryOf(u)[i] =
                      PushedFrames(u)[Len(PushedFrames(u)) - Len(HistoryOf(u)) + i]

\* a full window that has slid twice and holds both kinds of frame
C1_Witness ==
    /\ HasHistory("u1")
    /\ Len(PushedFrames("u1")) = 12
    /\ Len(HistoryOf("u1")) = 10
    /\ PushedFrames("u1")[1].face_present /\ ~PushedFrames("u1")[2].face_present
    /\ ~HistoryOf("u1")[1].face_present /\ HistoryOf("u1")[10].face_present

(***************************************************************************)
(* C2: after a frame push the stable state is focused exactly when at      *)
(* least 60% of the history entries have face_present, and distracted      *)
(* with type looking_away otherwise; on a full window 6 face frames give   *)
(* focused and 5 give distracted.                                          *)
(***************************************************************************)
C2_MajorityVote ==
    TickResponse =>
        LET h == HistoryOf(response.user_id)
        IN  /\ ~response.distraction_detected <=> (10 * FaceCount(h) >= 6 * Len(h))
            /\ response.distraction_detected => response.distraction_type = "looking_away"
            /\ ~response.distraction_detected => response.distraction_type = None
            /\ (Len(h) = 10 /\ FaceCount(h) = 6) => ~response.distraction_detected
            /\ (Len(h) = 10 /\ FaceCount(h) = 5) => response.distraction_detected

\* the boundary: a full window with exactly 6 face frames, reported focused
C2_Witness ==
    /\ TickResponse
    /\ Len(HistoryOf(response.user_id)) = 10
    /\ FaceCount(HistoryOf(response.user_id)) = 6
    /\ ~response.distraction_detected

(***************************************************************************)
(* C3: every analyze call pushes its frame and returns a stable state;     *)
(* none is answered by the error fallback.                                 *)
(***************************************************************************)
C3_NoFrameDropped ==
    response.op = "analyze_focus" => "error" \notin DOMAIN response

(***************************************************************************)
(* Vocabulary of the properties about one tick (a step of analyze_focus    *)
(* that completed: it stored one learning event for the user).             *)
(***************************************************************************)
Ticked(u) ==
    /\ response'.op = "analyze_focus"
    /\ response'.user_id = u
    /\ "error" \notin DOMAIN response'
    /\ Len(EventsOf(LEARNING_EVENTS', u)) = Len(EventsOf(LEARNING_EVENTS, u)) + 1

\* u has completed a tick before; its stable status and its clock reading
PrevTick(u) == HasHistory(u) /\ "last_distraction_status" \in DOMAIN STUDENT_MODELS[u]
PrevStatus(u) == STUDENT_MODELS[u].last_distraction_status
PrevTickTime(u) == EventsOf(LEARNING_EVENTS, u)[Len(EventsOf(LEARNING_EVENTS, u))].timestamp

\* two consecutive ticks of u with stable status distracted, the second being this step
StaysDistracted(u) ==
    Ticked(u) /\ PrevTick(u) /\ PrevStatus(u) /\ response'.distraction_detected

LastShownTime(u) == Get(STUDENT_MODELS[u], "last_intervention_time", 0)
LastShownType(u) == Get(STUDENT_MODELS[u], "last_intervention_type", None)
LastLogTime(u) == Get(STUDENT_MODELS[u], "last_log_time", 0)
DecisionCount(u) == Len(LogsOf(DECISION_LOGS, u))
DistractedCount(h) == Cardinality({i \in 1..Len(h) : h[i].is_distracted})

\* the learning event stored by the tick before the last one of u was a distracted tick
PreviousTickWasDistracted(u) ==
    LET ev == EventsOf(LEARNING_EVENTS, u)
    IN  Len(ev) >= 2 /\ ~ev[Len(ev) - 1].evidence.gaze_stable

\* seconds between the last two ticks of u
LastTickGap(u) ==
    LET ev == EventsOf(LEARNING_EVENTS, u)
    IN  ev[Len(ev)].timestamp - ev[Len(ev) - 1].timestamp

(***************************************************************************)
(* C4: on a tick whose stable status changes from focused (previous tick)  *)
(* to distracted, the returned intervention is non-null, whatever the      *)
(* cooldown bookkeeping holds.                                             *)
(***************************************************************************)
C4_TransitionAlwaysIntervenes ==
    [][\A u \in Users :
          (Ticked(u) /\ PrevTick(u) /\ ~PrevStatus(u) /\ response'.distraction_detected)
              => response'.intervention # None]_vars

C6_GateOpensAtEight ==
    [][\A u \in Users :
          (StaysDistracted(u)
             /\ response'.distraction_type = LastShownType(u)
             /\ now' - LastShownTime(u) >= 8)
              => STUDENT_MODELS'[u].last_intervention_time = now']_vars

(***************************************************************************)
(* C6 (amended): on such a tick the gate opens exactly when strictly more  *)
(* than 8 seconds have elapsed since last_intervention_time: then          *)
(* last_intervention_time becomes the current time and the message is      *)
(* returned if the window holds at least 3 distracted frames or            *)
(* distraction_count exceeds 5; at 8 seconds or less the bookkeeping is    *)
(* left unchanged.                                                         *)
(***************************************************************************)
C6_GateOpensAfterEight ==
    [][\A u \in Users :
          (StaysDistracted(u) /\ response'.distraction_type = LastShownType(u))
              => IF now' - LastShownTime(u) > 8
                   THEN /\ STUDENT_MODELS'[u].last_intervention_time = now'
                        /\ STUDENT_MODELS'[u].last_intervention_type = response'.distraction_type
                        /\ response'.intervention # None
                              <=> \/ DistractedCount(STUDENT_MODELS'[u].status_history) >= 3
                                  \/ STUDENT_MODELS'[u].distraction_count > 5
                   ELSE /\ STUDENT_MODELS'[u].last_intervention_time = LastShownTime(u)
                        /\ STUDENT_MODELS'[u].last_intervention_type = LastShownType(u)]_vars

\* the gate reopened by the cooldown alone: status and type unchanged, message shown
C6_Witness ==
    /\ TickResponse
    /\ response.distraction_detected
    /\ PreviousTickWasDistracted(response.user_id)
    /\ LastTickGap(response.user_id) > 0
    /\ STUDENT_MODELS[response.user_id].last_intervention_time = response.time
    /\ response.intervention = MsgLookingAway

C8_LogAtTwenty ==
    [][\A u \in Users :
          StaysDistracted(u)
              => IF now' - LastLogTime(u) >= 20
                   THEN /\ DecisionCount(u)' > DecisionCount(u)
                        /\ STUDENT_MODELS'[u].last_log_time = now'
                   ELSE DecisionCount(u)' = DecisionCount(u)]_vars

(***************************************************************************)
(* C8 (amended): while the status stays distracted, a Decision is appended *)
(* and last_log_time set to the current time on a tick strictly more than  *)
(* 20 seconds after last_log_time; on a tick with unchanged status at 20   *)
(* seconds or less (and on any tick that stays focused) no Decision is     *)
(* appended and last_log_time is left alone.                               *)
(***************************************************************************)
C8_LogAfterTwenty ==
    [][\A u \in Users :
          /\ StaysDistracted(u)
               => IF now' - LastLogTime(u) > 20
                    THEN /\ DecisionCount(u)' > DecisionCount(u)
                         /\ STUDENT_MODELS'[u].last_log_time = now'
                    ELSE /\ DecisionCount(u)' = DecisionCount(u)
                         /\ Get(STUDENT_MODELS'[u], "last_log_time", 0) = LastLogTime(u)
          /\ (Ticked(u) /\ PrevTick(u) /\ ~PrevStatus(u) /\ ~response'.distraction_detected)
               => DecisionCount(u)' = DecisionCount(u)]_vars

\* a persistence log: the status stayed distracted and the tick logged
C8_Witness ==
    /\ TickResponse
    /\ response.distraction_detected
    /\ PreviousTickWasDistracted(response.user_id)
    /\ LastTickGap(response.user_id) > 0
    /\ STUDENT_MODELS[response.user_id].last_log_time = response.time
    /\ DecisionCount(response.user_id) >= 2

(***************************************************************************)
(* C9: for a fresh user sent 10 frames without a face, every tick reports  *)
(* looking_away at distraction level 1.0 and the 3rd tick returns an       *)
(* intervention message.                                                   *)
(***************************************************************************)
C9_AllAbsentScenario ==
    LET u == response.user_id
        ev == EventsOf(LEARNING_EVENTS, u)
    IN  (TickResponse /\ Len(ev) <= 10 /\ \A i \in 1..Len(ev) : ~ev[i].evidence.face_present)
            => /\ response.distraction_type = "looking_away"
               /\ response.learning_event.evidence.distraction_level = LevelScale
               /\ Len(ev) = 3 => response.intervention # None

(***************************************************************************)
(* SpecPlan: the plan endpoints.  request_plan is the plan the client      *)
(* holds: the one create_focus_plan returned (to which the client may      *)
(* attach tasks), sent as current_plan to adapt_focus_plan and replaced    *)
(* by the plan that comes back.  Ticks without a face raise the user's     *)
(* distraction_count.                                                      *)
(***************************************************************************)
PlanTasks == {<<>>, <<[priority |-> 3], [priority |-> 1]>>}

TriggerEvents ==
    [distraction_type : {None, "phone_use", "looking_away"},
     event_type : {None, COGNITIVE_OVERLOAD, SUSTAINED_FOCUS}]

\* create_focus_plan, POST /api/antigravity/focus-plan
CreateFocusPlan(u, goal_minutes, tasks, dt) ==
    /\ now + dt <= StartTime + PlanHorizon
    /\ now' = now + dt
    /\ LET made == generate_focus_plan(STUDENT_MODELS, DECISION_LOGS, next_uuid,
                                       u, goal_minutes, now + dt)
       IN  /\ Len(LogsOf(made.DECISION_LOGS, u)) <= MaxDecisions
           /\ DECISION_LOGS' = made.DECISION_LOGS
           /\ next_uuid' = made.next_uuid
           /\ request_plan' = IF tasks = <<>> THEN made.plan
                              ELSE Put(made.plan, "tasks", tasks)
    /\ response' = [op |-> "create_focus_plan", user_id |-> u, time |-> now + dt,
                    success |-> TRUE]
    /\ UNCHANGED <<STUDENT_MODELS, LEARNING_EVENTS>>
    /\ UNCHANGED <<in_flight, world_vars>>

\* adapt_focus_plan, POST /api/antigravity/adapt-plan.  The returned plan is the
\* request's own dict, so was_adapted compares a list with itself.
AdaptFocusPlan(u, trigger_event, dt) ==
    /\ now + dt <= StartTime + PlanHorizon
    /\ now' = now + dt
    /\ LET adapted == adapt_plan(STUDENT_MODELS, DECISION_LOGS, next_uuid, u,
                                 request_plan, trigger_event, now + dt)
       IN  /\ Len(LogsOf(adapted.DECISION_LOGS, u)) <= MaxDecisions
           /\ DECISION_LOGS' = adapted.DECISION_LOGS
           /\ next_uuid' = adapted.next_uuid
           /\ request_plan' = IF adapted.raised THEN request_plan ELSE adapted.plan
           /\ response' = IF adapted.raised
                            THEN [op |-> "adapt_plan", user_id |-> u, time |-> now + dt,
                                  error |-> TRUE]
                            ELSE [op |-> "adapt_plan", user_id |-> u, time |-> now + dt,
                                  success |-> TRUE, was_adapted |-> FALSE]
    /\ UNCHANGED <<STUDENT_MODELS, LEARNING_EVENTS>>
    /\ UNCHANGED <<in_flight, world_vars>>

NextPlan ==
    \/ \E u \in CoreUsers, g \in PlanGoals, tasks \in PlanTasks, dt \in PlanDeltas :
          CreateFocusPlan(u, g, tasks, dt)
    \/ \E u \in CoreUsers, trigger \in TriggerEvents, dt \in PlanDeltas :
          AdaptFocusPlan(u, trigger, dt)
    \/ \E u \in CoreUsers : AnalyzeFrame(u, FALSE, 0, MaxPlanTicks)

SpecPlan == Init /\ [][NextPlan]_vars

PlanAdaptations == Get(request_plan, "adaptations", <<>>)

(***************************************************************************)
(* C10 (as claimed): of two adapt_plan calls less than 120 seconds apart,  *)
(* the second returns the plan exactly as the first left it.               *)
(***************************************************************************)
C10_SecondCallUnchanged ==
    [][(response.op = "adapt_plan" /\ response'.op = "adapt_plan"
          /\ response'.time - response.time < 120)
           => request_plan' = request_plan]_vars

(***************************************************************************)
(* C10 (amended): of two adapt_plan calls less than 120 seconds apart, the *)
(* second returns the plan exactly as the first left it, and logs no       *)
(* Decision, provided the first call applied an adaptation (the newest     *)
(* entry of plan.adaptations dates from it).                               *)
(***************************************************************************)
C10_SecondCallInCooldownUnchanged ==
    [][(response.op = "adapt_plan" /\ response'.op = "adapt_plan"
          /\ response'.time - response.time < 120
          /\ Len(PlanAdaptations) > 0
          /\ PlanAdaptations[Len(PlanAdaptations)].timestamp = response.time)
           => /\ request_plan' = request_plan
              /\ DECISION_LOGS' = DECISION_LOGS
              /\ "error" \notin DOMAIN response']_vars

\* a call answered 60 s after the call that applied the newest adaptation
C10_Witness ==
    /\ response.op = "adapt_plan"
    /\ "error" \notin DOMAIN response
    /\ Len(PlanAdaptations) > 0
    /\ response.time - PlanAdaptations[Len(PlanAdaptations)].timestamp = 60

(***************************************************************************)
(* Vocabulary of the properties about adapt_plan.  A step whose response   *)
(* is that of adapt_focus_plan adapts the plan the client holds            *)
(* (request_plan); a tick of analyze_focus adapts the plan stored in the   *)
(* user's student model.                                                   *)
(***************************************************************************)
AdaptCall == response'.op = "adapt_plan"

AdaptationsOf(plan) == Get(plan, "adaptations", <<>>)

\* the user's current_focus_plan ({} when there is none)
ModelPlan(sm, u) == Get(Get(sm, u, <<>>), "current_focus_plan", <<>>)

\* the newest Adaptation of the plan is less than 120 seconds old at clock reading t
NewestIsRecent(plan, t) ==
    /\ Len(AdaptationsOf(plan)) > 0
    /\ t - AdaptationsOf(plan)[Len(AdaptationsOf(plan))].timestamp < 120

\* any two consecutive Adaptations of the plan are at least 120 seconds apart
SpacedApart(plan) ==
    \A i \in 1..(Len(AdaptationsOf(plan)) - 1) :
        AdaptationsOf(plan)[i + 1].timestamp - AdaptationsOf(plan)[i].timestamp >= 120

AdaptActions ==
    {"adapt_plan_reduce_focus_time", "adapt_plan_decompose_goal",
     "adapt_plan_simplify_tasks", "adapt_plan_extend_block"}

\* the number of adapt_plan_* Decisions in the user's log
AdaptDecisionCount(dl, u) ==
    Cardinality({i \in 1..Len(LogsOf(dl, u)) : LogsOf(dl, u)[i].action \in AdaptActions})

(***************************************************************************)
(* C11: adapt_plan changes nothing (no plan field, no Adaptation, no       *)
(* Decision) when the newest entry of plan.adaptations is less than 120    *)
(* seconds old, for the client's plan and for the plan of a student model  *)
(* alike; and in every plan reached any two consecutive Adaptations are    *)
(* at least 120 seconds apart.                                             *)
(***************************************************************************)
C11_CooldownNoOp ==
    [][/\ (AdaptCall /\ NewestIsRecent(request_plan, now'))
            => request_plan' = request_plan /\ DECISION_LOGS' = DECISION_LOGS
       /\ \A u \in Users :
            (Ticked(u) /\ NewestIsRecent(ModelPlan(STUDENT_MODELS, u), now'))
              => /\ ModelPlan(STUDENT_MODELS', u) = ModelPlan(STUDENT_MODELS, u)
                 /\ AdaptDecisionCount(DECISION_LOGS', u) = AdaptDecisionCount(DECISION_LOGS, u)
       /\ SpacedApart(request_plan')
       /\ \A u \in Users : SpacedApart(ModelPlan(STUDENT_MODELS', u))]_vars

\* two Adaptations exactly 120 s apart, and a call refused 60 s after the second
C11_Witness ==
    /\ response.op = "adapt_plan"
    /\ "error" \notin DOMAIN response
    /\ Len(PlanAdaptations) = 2
    /\ PlanAdaptations[2].timestamp - PlanAdaptations[1].timestamp = 120
    /\ response.time - PlanAdaptations[2].timestamp = 60

(***************************************************************************)
(* SpecAdapt: adapt_plan on plans of the client's own making.  The         *)
(* current_plan of adapt_focus_plan is whatever dict the request carries:  *)
(* the client starts with a FocusPlan of some duration, with or without    *)
(* tasks, and sends back what each call returns.                           *)
(***************************************************************************)
PlanDurations == {5, 14, 25, 41, 60}

ClientPlan(d, tasks) ==
    LET plan == [recommended_duration_minutes |-> d, break_interval_minutes |-> d,
                 break_duration_minutes |-> IF d >= 25 THEN 5 ELSE 3,
                 goals |-> <<>>, adaptations |-> <<>>, confidence |-> 5]
    IN  IF tasks = <<>> THEN plan ELSE Put(plan, "tasks", tasks)

\* a plan of each duration without tasks, and the 25 minute plan with tasks as well
ClientPlans ==
    {ClientPlan(d, <<>>) : d \in PlanDurations}
      \cup {ClientPlan(25, tasks) : tasks \in PlanTasks}

InitAdapt ==
    /\ STUDENT_MODELS = <<>>
    /\ LEARNING_EVENTS = <<>>
    /\ DECISION_LOGS = <<>>
    /\ next_uuid = 1
    /\ now = StartTime
    /\ response = [op |-> "none"]
    /\ request_plan \in ClientPlans
    /\ NothingInFlight

NextAdapt ==
    \/ \E u \in CoreUsers, trigger \in TriggerEvents, dt \in PlanDeltas :
          AdaptFocusPlan(u, trigger, dt)
    \/ \E u \in CoreUsers : AnalyzeFrame(u, FALSE, 0, MaxPlanTicks)

SpecAdapt == InitAdapt /\ [][NextAdapt]_vars

\* the newest Adaptation of the plan ([type |-> None] when there is none)
NewestAdaptation(plan) ==
    IF Len(AdaptationsOf(plan)) = 0 THEN [type |-> None]
    ELSE AdaptationsOf(plan)[Len(AdaptationsOf(plan))]

\* the duration bound that the plan's newest Adaptation promises
WithinDurationBounds(plan) ==
    LET type == NewestAdaptation(plan).type
        duration == plan.recommended_duration_minutes
    IN  /\ type = "reduce_focus_time" => duration >= 10
        /\ type = "decompose_goal" => duration >= 15
        /\ type = "extend_block" => duration <= 45

(***************************************************************************)
(* C12: in every plan reached by adapt_plan calls, a plan whose newest     *)
(* Adaptation is the phone_use one (reduce_focus_time) has a               *)
(* recommended duration of at least 10, one whose newest is the            *)
(* looking_away one (decompose_goal) of at least 15, and one whose newest  *)
(* is the sustained-focus extension (extend_block) of at most 45.          *)
(***************************************************************************)
C12_DurationBounds ==
    /\ WithinDurationBounds(request_plan)
    /\ \A u \in Users : WithinDurationBounds(ModelPlan(STUDENT_MODELS, u))

\* the cap reached by an extension of the client's plan (from 41 or 60 minutes),
\* the looking_away floor reached by the plan of the student model
C12_Witness ==
    /\ NewestAdaptation(request_plan).type = "extend_block"
    /\ request_plan.recommended_duration_minutes = 45
    /\ NewestAdaptation(ModelPlan(STUDENT_MODELS, "u1")).type = "decompose_goal"
    /\ ModelPlan(STUDENT_MODELS, "u1").recommended_duration_minutes = 15

\* the user's distraction_count, as adapt_plan reads it
DistractionCountOf(sm, u) == Get(Get(sm, u, <<>>), "distraction_count", 0)

\* the Adaptation type of the first rule the trigger matches, in the order
\* phone_use, looking_away with count > 3, COGNITIVE_OVERLOAD, SUSTAINED_FOCUS
FirstMatchingRule(trigger, distraction_count) ==
    CASE trigger.distraction_type = "phone_use" -> "reduce_focus_time"
      [] trigger.distraction_type # "phone_use"
           /\ trigger.distraction_type = "looking_away" /\ distraction_count > 3
           -> "decompose_goal"
      [] trigger.distraction_type # "phone_use"
           /\ ~(trigger.distraction_type = "looking_away" /\ distraction_count > 3)
           /\ trigger.event_type = COGNITIVE_OVERLOAD
           -> "simplify_tasks"
      [] trigger.distraction_type # "phone_use"
           /\ ~(trigger.distraction_type = "looking_away" /\ distraction_count > 3)
           /\ trigger.event_type # COGNITIVE_OVERLOAD
           /\ trigger.event_type = SUSTAINED_FOCUS
           -> "extend_block"
      [] OTHER -> None

\* the plan fields a rule of the given type does not write are left as they were
OtherFieldsKept(type, before, after) ==
    /\ type # "simplify_tasks" => Get(after, "tasks", <<>>) = Get(before, "tasks", <<>>)
    /\ type \in {"simplify_tasks"}
         => after.recommended_duration_minutes = before.recommended_duration_minutes
    /\ type \in {"simplify_tasks", "extend_block"}
         => after.break_interval_minutes = before.break_interval_minutes
    /\ type = "reduce_focus_time"
         => after.recommended_duration_minutes <= Max(10, before.recommended_duration_minutes)
    /\ type = "extend_block"
         => after.recommended_duration_minutes >= Min(45, before.recommended_duration_minutes)

(***************************************************************************)
(* C13: a call of adapt_plan appends at most one Adaptation, and the one   *)
(* it appends is that of the first rule the trigger matches in the order   *)
(* phone_use; looking_away with distraction_count > 3; COGNITIVE_OVERLOAD; *)
(* SUSTAINED_FOCUS.  A trigger matching several rules changes the plan as  *)
(* the earliest rule alone does.                                           *)
(***************************************************************************)
C13_FirstMatchingRuleOnly ==
    [][/\ (AdaptCall /\ request_plan' # request_plan)
            => /\ Len(AdaptationsOf(request_plan')) = Len(AdaptationsOf(request_plan)) + 1
               /\ SubSeq(AdaptationsOf(request_plan'), 1, Len(AdaptationsOf(request_plan)))
                    = AdaptationsOf(request_plan)
               /\ \A u \in CoreUsers, trigger \in TriggerEvents :
                    AdaptFocusPlan(u, trigger, now' - now)
                      => LET type == FirstMatchingRule(trigger,
                                         DistractionCountOf(STUDENT_MODELS, u))
                         IN  /\ NewestAdaptation(request_plan').type = type
                             /\ OtherFieldsKept(type, request_plan, request_plan')
       /\ \A u \in Users :
            Ticked(u)
              => Len(AdaptationsOf(ModelPlan(STUDENT_MODELS', u)))
                   <= Len(AdaptationsOf(ModelPlan(STUDENT_MODELS, u))) + 1]_vars

\* the newest Decision of the user's log
NewestDecision(dl, u) == LogsOf(dl, u)[Len(LogsOf(dl, u))]

\* a trigger matching the first and the last rule (phone_use with SUSTAINED_FOCUS)
\* on a 25 minute plan: shortened to 20 minutes, not extended
C13_Witness ==
    /\ response.op = "adapt_plan"
    /\ Len(PlanAdaptations) = 1
    /\ PlanAdaptations[1].type = "reduce_focus_time"
    /\ PlanAdaptations[1].timestamp = response.time
    /\ request_plan.recommended_duration_minutes = 20
    /\ NewestDecision(DECISION_LOGS, response.user_id).triggering_evidence.distraction_type = "phone_use"
    /\ NewestDecision(DECISION_LOGS, response.user_id).triggering_evidence.event_type = SUSTAINED_FOCUS

(***************************************************************************)
(* C14: adapt_plan called outside the cooldown with distraction_type       *)
(* phone_use on a plan of recommended duration d leaves the duration at    *)
(* max(10, d - 5) and the break interval at min(new duration, 15), and     *)
(* appends exactly one Adaptation, of type reduce_focus_time; d = 25       *)
(* gives duration 20 and break interval 15.                                *)
(***************************************************************************)
C14_PhoneUseShortens ==
    [][\A u \in CoreUsers, trigger \in TriggerEvents :
          (/\ AdaptCall
           /\ trigger.distraction_type = "phone_use"
           /\ ~NewestIsRecent(request_plan, now')
           /\ AdaptFocusPlan(u, trigger, now' - now))
            => LET d == request_plan.recommended_duration_minutes
                   new == request_plan'.recommended_duration_minutes
               IN  /\ new = Max(10, d - 5)
                   /\ request_plan'.break_interval_minutes = Min(new, 15)
                   /\ d = 25 => new = 20 /\ request_plan'.break_interval_minutes = 15
                   /\ AdaptationsOf(request_plan')
                        = Append(AdaptationsOf(request_plan), NewestAdaptation(request_plan'))
                   /\ NewestAdaptation(request_plan').type = "reduce_focus_time"]_vars

\* the scenario: phone_use alone on a fresh 25 minute plan
C14_Witness ==
    /\ response.op = "adapt_plan"
    /\ Len(PlanAdaptations) = 1
    /\ PlanAdaptations[1].type = "reduce_focus_time"
    /\ PlanAdaptations[1].new_duration = 20
    /\ PlanAdaptations[1].new_break_interval = 15
    /\ request_plan.recommended_duration_minutes = 20
    /\ request_plan.break_interval_minutes = 15
    /\ NewestDecision(DECISION_LOGS, response.user_id).triggering_evidence.distraction_type = "phone_use"
    /\ NewestDecision(DECISION_LOGS, response.user_id).triggering_evidence.event_type = None

(***************************************************************************)
(* C15: when no rule of adapt_plan matches the trigger (looking_away with  *)
(* distraction_count <= 3 and no matching event_type included) the plan    *)
(* comes back with every field unchanged, no Adaptation is appended and    *)
(* no Decision is logged; the cooldown is not started, so that a matching  *)
(* call is applied however soon it follows calls that matched nothing.     *)
(***************************************************************************)
C15_NoMatchNoChange ==
    [][/\ \A u \in CoreUsers, trigger \in TriggerEvents :
            /\ (/\ AdaptCall
                /\ FirstMatchingRule(trigger, DistractionCountOf(STUDENT_MODELS, u)) = None
                /\ AdaptFocusPlan(u, trigger, now' - now))
                 => request_plan' = request_plan /\ DECISION_LOGS' = DECISION_LOGS
            /\ (/\ AdaptCall
                /\ response.op = "adapt_plan"
                /\ AdaptationsOf(request_plan) = <<>>
                /\ FirstMatchingRule(trigger, DistractionCountOf(STUDENT_MODELS, u)) # None
                /\ AdaptFocusPlan(u, trigger, now' - now))
                 => Len(AdaptationsOf(request_plan')) = 1
       /\ \A u \in Users :
            (Ticked(u) /\ DistractionCountOf(STUDENT_MODELS', u) <= 3)
              => /\ AdaptationsOf(ModelPlan(STUDENT_MODELS', u))
                      = AdaptationsOf(ModelPlan(STUDENT_MODELS, u))
                 /\ AdaptDecisionCount(DECISION_LOGS', u) = AdaptDecisionCount(DECISION_LOGS, u)]_vars

\* a call answered after the clock has advanced, for a user with three distractions,
\* that left the plan without any Adaptation and the log without any Decision
C15_Witness ==
    /\ response.op = "adapt_plan"
    /\ "error" \notin DOMAIN response
    /\ response.time > StartTime
    /\ "adaptations" \in DOMAIN request_plan
    /\ PlanAdaptations = <<>>
    /\ DistractionCountOf(STUDENT_MODELS, response.user_id) = 3
    /\ AdaptDecisionCount(DECISION_LOGS, response.user_id) = 0

(***************************************************************************)
(* C16: a call of adapt_plan that applies an adaptation appends exactly    *)
(* one Adaptation to plan.adaptations and exactly one Decision to the      *)
(* user's log, with action adapt_plan_<type> and the alternatives          *)
(* "No change", "End session early", "Switch modality"; a call that        *)
(* applies none appends neither; so the number of adapt_plan_* Decisions   *)
(* of a user equals the number of Adaptations applied to the user's plans. *)
(***************************************************************************)
C16_OneAdaptationOneDecision ==
    [][/\ AdaptCall
            => LET u == response'.user_id
                   before == AdaptationsOf(request_plan)
                   after == AdaptationsOf(request_plan')
               IN  \/ after = before /\ DECISION_LOGS' = DECISION_LOGS
                   \/ /\ after = Append(before, NewestAdaptation(request_plan'))
                      /\ Len(LogsOf(DECISION_LOGS', u)) = Len(LogsOf(DECISION_LOGS, u)) + 1
                      /\ SubSeq(LogsOf(DECISION_LOGS', u), 1, Len(LogsOf(DECISION_LOGS, u)))
                           = LogsOf(DECISION_LOGS, u)
                      /\ NewestDecision(DECISION_LOGS', u).action
                           = "adapt_plan_" \o NewestAdaptation(request_plan').type
                      /\ NewestDecision(DECISION_LOGS', u).alternatives_considered
                           = <<"No change", "End session early", "Switch modality">>
                      /\ \A v \in Users \ {u} : LogsOf(DECISION_LOGS', v) = LogsOf(DECISION_LOGS, v)
       /\ \A u \in Users :
            Ticked(u)
              => AdaptDecisionCount(DECISION_LOGS', u) - AdaptDecisionCount(DECISION_LOGS, u)
                   = Len(AdaptationsOf(ModelPlan(STUDENT_MODELS', u)))
                       - Len(AdaptationsOf(ModelPlan(STUDENT_MODELS, u)))
       /\ \A u \in CoreUsers :
            AdaptDecisionCount(DECISION_LOGS', u)
              = Len(AdaptationsOf(request_plan'))
                  + Len(AdaptationsOf(ModelPlan(STUDENT_MODELS', u)))]_vars

\* two Adaptations applied to the client's plan, two adapt_plan_* Decisions logged
C16_Witness ==
    /\ response.op = "adapt_plan"
    /\ Len(PlanAdaptations) = 2
    /\ PlanAdaptations[2].timestamp = response.time
    /\ AdaptDecisionCount(DECISION_LOGS, response.user_id) = 2
    /\ NewestDecision(DECISION_LOGS, response.user_id).action
         = "adapt_plan_" \o PlanAdaptations[2].type
    /\ NewestDecision(DECISION_LOGS, response.user_id).timestamp = response.time

\* the cooldown bookkeeping of the user's student model (absent keys as absent)
ShownBookkeeping(sm, u) ==
    LET model == Get(sm, u, <<>>)
    IN  [k \in {"last_intervention_time", "last_intervention_type"} \cap DOMAIN model |-> model[k]]

(***************************************************************************)
(* C17: on a tick whose stable status is not distracted the returned       *)
(* intervention is null, and last_intervention_time and                    *)
(* last_intervention_type are left as they were.                           *)
(***************************************************************************)
C17_FocusedTickSilent ==
    [][\A u \in Users :
          (Ticked(u) /\ ~response'.distraction_detected)
            => /\ response'.intervention = None
               /\ ShownBookkeeping(STUDENT_MODELS', u) = ShownBookkeeping(STUDENT_MODELS, u)]_vars

\* a focused tick of a user whose gate has opened before and whose window still
\* holds three frames without a face
C17_Witness ==
    /\ TickResponse
    /\ ~response.distraction_detected
    /\ response.intervention = None
    /\ "last_intervention_time" \in DOMAIN STUDENT_MODELS[response.user_id]
    /\ DistractedCount(HistoryOf(response.user_id)) >= 3

\* on this tick of u the vote's message is chosen and passes the cooldown gate:
\* the window holds at least 3 distracted frames, and the status has changed, or
\* the type differs from the one last shown, or more than 8 seconds have passed
MessageChosen(u) ==
    LET model == Get(STUDENT_MODELS, u, <<>>)
    IN  /\ DistractedCount(STUDENT_MODELS'[u].status_history) >= 3
        /\ \/ ~Get(model, "last_distraction_status", FALSE)
           \/ Get(model, "last_intervention_type", None) # response'.distraction_type
           \/ now' - Get(model, "last_intervention_time", 0) > 8

(***************************************************************************)
(* C18: on a distracted tick on which the user's distraction_count exceeds *)
(* 5 and no other intervention is chosen, the returned intervention is the *)
(* break suggestion; the break suggestion is never returned while          *)
(* distraction_count is 5 or less, nor on a focused tick.                  *)
(***************************************************************************)
C18_BreakSuggestionAboveFive ==
    [][\A u \in Users :
          Ticked(u)
            => /\ (response'.distraction_detected
                     /\ STUDENT_MODELS'[u].distraction_count > 5)
                    => response'.intervention
                         = IF MessageChosen(u) THEN MsgLookingAway ELSE MsgBreak
               /\ response'.intervention = MsgBreak
                    => /\ response'.distraction_detected
                       /\ STUDENT_MODELS'[u].distraction_count > 5]_vars

\* the sixth distracted tick, silenced by the gate, answered by the break suggestion
C18_Witness ==
    /\ TickResponse
    /\ response.distraction_detected
    /\ response.intervention = MsgBreak
    /\ STUDENT_MODELS[response.user_id].distraction_count = 6

(***************************************************************************)
(* SpecClassify: the event classifier applied to signals of every kind.    *)
(* analyze_focus itself only ever passes time_on_content = 30 and          *)
(* interaction_count = 1; the classifier is a function of any signals      *)
(* dict and of the user's stored events.                                   *)
(***************************************************************************)
\* events stored per user in SpecClassify
MaxClassified == 2
\* events stored per user in SpecRecovery
MaxStored == 12

\* the scenario's signals: eyes_open and distraction_level are left to their defaults
ScenarioSignals ==
    [face_present |-> TRUE, gaze_stable |-> TRUE, time_on_content |-> 40,
     interaction_count |-> 1]

\* without a face: distraction_level 0.5 or 1.0; with a face: every time_on_content
\* around the thresholds 10, 30 and 120
ClassifierSignals ==
    {s \in [face_present : BOOLEAN, eyes_open : BOOLEAN, gaze_stable : BOOLEAN,
            distraction_level : {0, LevelScale \div 2, LevelScale},
            time_on_content : {5, 10, 30, 40, 120, 121},
            interaction_count : {0, 1}] :
        IF s.face_present
          THEN s.distraction_level = 0
          ELSE s.distraction_level # 0 /\ s.eyes_open /\ s.time_on_content \in {5, 121}}
      \cup {ScenarioSignals}

\* a call of infer_learning_event
InferLearningEvent(u, signals, max_events) ==
    /\ Len(EventsOf(LEARNING_EVENTS, u)) < max_events
    /\ LET inferred == infer_learning_event(LEARNING_EVENTS, u, signals, now)
       IN  /\ LEARNING_EVENTS' = inferred.LEARNING_EVENTS
           /\ response' = [op |-> "infer_learning_event", user_id |-> u, time |-> now,
                           learning_event |-> inferred.event]
    /\ UNCHANGED <<STUDENT_MODELS, DECISION_LOGS, next_uuid, now, request_plan>>
    /\ UNCHANGED <<in_flight, world_vars>>

NextClassify ==
    \E u \in CoreUsers, signals \in ClassifierSignals :
        InferLearningEvent(u, signals, MaxClassified)

SpecClassify == Init /\ [][NextClassify]_vars

(***************************************************************************)
(* Vocabulary of the properties about the classifier.                      *)
(***************************************************************************)
\* the n-th stored event of u was computed with one of the 10 events stored
\* immediately before it being a distraction
DistractionBefore(u, n) ==
    \E i \in Max(1, n - 10)..(n - 1) :
        EventsOf(LEARNING_EVENTS, u)[i].event_type
            \in {DISTRACTION_PHONE, DISTRACTION_ENVIRONMENT}

\* the number of the first rule the signals match (0: none), in the order
\* face absent; long time without interaction; short time with stable gaze;
\* stable gaze, eyes open and time above 30
FirstRule(s) ==
    LET face_present == Get(s, "face_present", TRUE)
        eyes_open == Get(s, "eyes_open", TRUE)
        gaze_stable == Get(s, "gaze_stable", TRUE)
        time_on_content == Get(s, "time_on_content", 0)
        interaction_count == Get(s, "interaction_count", 0)
    IN  CASE ~face_present -> 1
          [] face_present /\ time_on_content > 120 /\ interaction_count = 0 -> 2
          [] face_present /\ ~(time_on_content > 120 /\ interaction_count = 0)
               /\ time_on_content < 10 /\ gaze_stable -> 3
          [] face_present /\ ~(time_on_content > 120 /\ interaction_count = 0)
               /\ ~(time_on_content < 10 /\ gaze_stable)
               /\ gaze_stable /\ eyes_open /\ time_on_content > 30 -> 4
          [] OTHER -> 0

\* type, confidence (hundredths) and should_intervene of the event equal the given ones
EventIs(event, type, confidence, should_intervene) ==
    /\ event.event_type = type
    /\ event.confidence = confidence
    /\ event.should_intervene = should_intervene

\* the event the call returned is the one it stored, and the only one it stored
ReturnedIsStored ==
    LET stored == EventsOf(LEARNING_EVENTS, response.user_id)
    IN  /\ Len(stored) > 0
        /\ stored[Len(stored)] = response.learning_event

\* what the first three rules and the absence of any rule give
RulesOneToThree(event) ==
    LET s == event.evidence
    IN  /\ FirstRule(s) = 1
             => EventIs(event, DISTRACTION_ENVIRONMENT, 90,
                        2 * Get(s, "distraction_level", 0) > LevelScale)
        /\ FirstRule(s) = 2 => EventIs(event, COGNITIVE_OVERLOAD, 70, TRUE)
        /\ FirstRule(s) = 3 => EventIs(event, SHALLOW_ENGAGEMENT, 60, FALSE)
        /\ FirstRule(s) = 0 => event.event_type = None /\ ~event.should_intervene

(***************************************************************************)
(* C19 (as claimed): the classifier returns exactly one event, whose type  *)
(* is that of the first matching rule: face absent gives                   *)
(* DISTRACTION_ENVIRONMENT (0.9, intervene iff distraction_level > 0.5);   *)
(* time_on_content > 120 without interaction COGNITIVE_OVERLOAD (0.7,      *)
(* intervene); time_on_content < 10 with stable gaze SHALLOW_ENGAGEMENT    *)
(* (0.6, no intervention); stable gaze, eyes open and time_on_content > 30 *)
(* SUSTAINED_FOCUS (0.85); otherwise no type and no intervention.          *)
(***************************************************************************)
C19_FirstMatchingRuleType ==
    response.op = "infer_learning_event"
      => /\ ReturnedIsStored
         /\ RulesOneToThree(response.learning_event)
         /\ FirstRule(response.learning_event.evidence) = 4
              => EventIs(response.learning_event, SUSTAINED_FOCUS, 85, FALSE)

(***************************************************************************)
(* C19 (amended): as above, except that when the fourth rule is the first  *)
(* to match the event is SUSTAINED_FOCUS (0.85) only if none of the        *)
(* user's 10 previously stored events is a distraction, and RECOVERY       *)
(* (0.75) if one is.                                                       *)
(***************************************************************************)
C19_FirstMatchingRuleOrRecovery ==
    response.op = "infer_learning_event"
      => /\ ReturnedIsStored
         /\ RulesOneToThree(response.learning_event)
         /\ FirstRule(response.learning_event.evidence) = 4
              => IF DistractionBefore(response.user_id,
                                      Len(EventsOf(LEARNING_EVENTS, response.user_id)))
                   THEN EventIs(response.learning_event, RECOVERY, 75, FALSE)
                   ELSE EventIs(response.learning_event, SUSTAINED_FOCUS, 85, FALSE)

\* signals matching the second and the fourth rule, classified by the second, for a
\* user whose previous event was a distraction
C19_Witness ==
    /\ response.op = "infer_learning_event"
    /\ response.learning_event.event_type = COGNITIVE_OVERLOAD
    /\ response.learning_event.evidence.gaze_stable
    /\ response.learning_event.evidence.eyes_open
    /\ Len(EventsOf(LEARNING_EVENTS, response.user_id)) = 2
    /\ EventsOf(LEARNING_EVENTS, response.user_id)[1].event_type = DISTRACTION_ENVIRONMENT

(***************************************************************************)
(* SpecRecovery: the classifier over histories longer than the 10 events   *)
(* it looks back on, with signals of three kinds: no face (a distraction), *)
(* the signals of sustained focus, and those of cognitive overload.        *)
(***************************************************************************)
RecoverySignals ==
    {[face_present |-> FALSE, eyes_open |-> TRUE, gaze_stable |-> FALSE,
      distraction_level |-> LevelScale, time_on_content |-> 40, interaction_count |-> 1],
     [face_present |-> TRUE, eyes_open |-> TRUE, gaze_stable |-> TRUE,
      distraction_level |-> 0, time_on_content |-> 40, interaction_count |-> 1],
     [face_present |-> TRUE, eyes_open |-> TRUE, gaze_stable |-> TRUE,
      distraction_level |-> 0, time_on_content |-> 121, interaction_count |-> 0]}

NextRecovery ==
    \E u \in CoreUsers, signals \in RecoverySignals :
        InferLearningEvent(u, signals, MaxStored)

SpecRecovery == Init /\ [][NextRecovery]_vars

(***************************************************************************)
(* C20: the newest stored event is RECOVERY (confidence 0.75) exactly when its      *)
(* signals compute to SUSTAINED_FOCUS (the fourth rule is the first to     *)
(* match) and at least one of the user's 10 events stored immediately      *)
(* before it is a distraction; with the only distraction more than 10      *)
(* events back it stays SUSTAINED_FOCUS (0.85); an event computed to any   *)
(* other type keeps that type.                                             *)
(***************************************************************************)
C20_RecoveryRelabel ==
    \A u \in Users :
        Len(EventsOf(LEARNING_EVENTS, u)) > 0 =>
            LET n == Len(EventsOf(LEARNING_EVENTS, u))
                event == EventsOf(LEARNING_EVENTS, u)[n]
                rule == FirstRule(event.evidence)
            IN  /\ event.event_type = RECOVERY <=> (rule = 4 /\ DistractionBefore(u, n))
                /\ event.event_type = RECOVERY => event.confidence = 75
                /\ (rule = 4 /\ ~DistractionBefore(u, n))
                     => event.event_type = SUSTAINED_FOCUS /\ event.confidence = 85
                /\ rule = 1 => event.event_type = DISTRACTION_ENVIRONMENT
                /\ rule = 2 => event.event_type = COGNITIVE_OVERLOAD

\* a distraction first, ten events without one, then sustained focus: the 11th event
\* was relabelled, the 12th, with the distraction 11 events back, was not
C20_Witness ==
    LET stored == EventsOf(LEARNING_EVENTS, "u1")
    IN  /\ Len(stored) = 12
        /\ stored[1].event_type = DISTRACTION_ENVIRONMENT
        /\ \A i \in 2..11 : stored[i].event_type # DISTRACTION_ENVIRONMENT
        /\ stored[11].event_type = RECOVERY
        /\ stored[12].event_type = SUSTAINED_FOCUS

(***************************************************************************)
(* check_teaching_readiness, GET /api/antigravity/teaching-readiness.      *)
(***************************************************************************)
CheckTeachingReadiness(u) ==
    /\ response' = [op |-> "should_teach", user_id |-> u, time |-> now,
                    ready_for_teaching |-> should_teach(LEARNING_EVENTS, u)[1],
                    reason |-> should_teach(LEARNING_EVENTS, u)[2],
                    recommendation |-> IF should_teach(LEARNING_EVENTS, u)[1]
                                         THEN "proceed" ELSE "wait"]
    /\ UNCHANGED <<STUDENT_MODELS, LEARNING_EVENTS, DECISION_LOGS, next_uuid, now,
                   request_plan>>
    /\ UNCHANGED <<in_flight, world_vars>>

(***************************************************************************)
(* SpecLazy: the operations that create or read a user's record on first   *)
(* sight, in any order: the analysis pipeline (driven with the detection   *)
(* result), the student-model query, the plan endpoints and the            *)
(* teaching-readiness query.  The client starts with a well-formed plan.   *)
(***************************************************************************)
\* analyze_focus ticks per user in SpecLazy
MaxLazyTicks == 3

InitLazy ==
    /\ STUDENT_MODELS = <<>>
    /\ LEARNING_EVENTS = <<>>
    /\ DECISION_LOGS = <<>>
    /\ next_uuid = 1
    /\ now = StartTime
    /\ response = [op |-> "none"]
    /\ request_plan = ClientPlan(25, <<>>)
    /\ NothingInFlight

NextLazy ==
    \/ \E u \in CoreUsers, face \in BOOLEAN, dt \in Deltas :
          /\ now + dt <= StartTime + Horizon
          /\ AnalyzeFrame(u, face, dt, MaxLazyTicks)
    \/ \E u \in CoreUsers : GetStudentModel(u)
    \/ \E u \in CoreUsers, g \in PlanGoals : CreateFocusPlan(u, g, <<>>, 0)
    \/ \E u \in CoreUsers, trigger \in TriggerEvents : AdaptFocusPlan(u, trigger, 0)
    \/ \E u \in CoreUsers : CheckTeachingReadiness(u)

SpecLazy == InitLazy /\ [][NextLazy]_vars

(***************************************************************************)
(* C21: no core operation fails on account of the user's prior history:    *)
(* generate_focus_plan, adapt_plan and should_teach answer normally, and   *)
(* every analyze call, for a user never seen and for a user whose student  *)
(* model another operation created, pushes its frame (the window is not    *)
(* empty afterwards) and returns a stable state.                           *)
(***************************************************************************)
C21_NoFailureOnHistory ==
    /\ response.op \in {"create_focus_plan", "adapt_plan", "should_teach"}
         => "error" \notin DOMAIN response
    /\ response.op = "analyze_focus"
         => /\ "error" \notin DOMAIN response
            /\ HasHistory(response.user_id)
            /\ Len(HistoryOf(response.user_id)) > 0

(***************************************************************************)
(* SpecPartial: the classifier applied to signals dicts from which any     *)
(* subset of the six fields it reads is missing.                           *)
(***************************************************************************)
\* events stored per user in SpecPartial
MaxPartial == 2

SignalFields ==
    {"face_present", "eyes_open", "gaze_stable", "distraction_level",
     "time_on_content", "interaction_count"}

\* the dict with only the given keys kept
Restrict(d, keys) == [k \in keys \cap DOMAIN d |-> d[k]]

\* a complete dict with no field at its default value
NoDefaultSignals ==
    [face_present |-> FALSE, eyes_open |-> FALSE, gaze_stable |-> FALSE,
     distraction_level |-> LevelScale, time_on_content |-> 121, interaction_count |-> 1]

\* every restriction of it, and the scenario's signals (two fields missing)
PartialSignals ==
    {Restrict(NoDefaultSignals, keys) : keys \in SUBSET SignalFields} \cup {ScenarioSignals}

NextPartial ==
    \E u \in CoreUsers, signals \in PartialSignals :
        InferLearningEvent(u, signals, MaxPartial)

SpecPartial == Init /\ [][NextPartial]_vars

\* the defaults the claim names
SignalDefaults ==
    [face_present |-> TRUE, eyes_open |-> TRUE, gaze_stable |-> TRUE,
     distraction_level |-> 0, time_on_content |-> 0, interaction_count |-> 0]

\* the signals with every missing field set to its default
FillDefaults(signals) ==
    [k \in SignalFields |-> IF k \in DOMAIN signals THEN signals[k] ELSE SignalDefaults[k]]

(***************************************************************************)
(* C22: for signals with any subset of the fields missing, the call of     *)
(* infer_learning_event returns one event, the one the complete signals    *)
(* with the defaults filled in (face_present, eyes_open, gaze_stable true; *)
(* distraction_level, time_on_content, interaction_count 0) would give,    *)
(* carrying the signals as received, and appends exactly that event to the *)
(* user's history; nothing else changes.                                   *)
(***************************************************************************)
C22_PartialSignalsDefaulted ==
    [][response'.op = "infer_learning_event"
         => LET u == response'.user_id
                event == response'.learning_event
                stored == EventsOf(LEARNING_EVENTS, u)
                filled == ClassifyEvent(LastN(stored, 10), FillDefaults(event.evidence), now)
            IN  /\ "error" \notin DOMAIN response'
                /\ event = [filled EXCEPT !.evidence = event.evidence]
                /\ EventsOf(LEARNING_EVENTS', u) = Append(stored, event)
                /\ \A v \in Users \ {u} :
                      EventsOf(LEARNING_EVENTS', v) = EventsOf(LEARNING_EVENTS, v)
                /\ UNCHANGED <<STUDENT_MODELS, DECISION_LOGS>>]_vars

\* an empty signals dict after a dict without face_present, time_on_content and
\* interaction_count: both stored, as the shallow engagement the defaults give
C22_Witness ==
    LET stored == EventsOf(LEARNING_EVENTS, "u1")
    IN  /\ response.op = "infer_learning_event"
        /\ Len(stored) = 2
        /\ DOMAIN stored[1].evidence = {"eyes_open", "gaze_stable", "distraction_level"}
        /\ ~stored[1].evidence.gaze_stable
        /\ stored[1].event_type = None
        /\ DOMAIN stored[2].evidence = {}
        /\ stored[2] = response.learning_event
        /\ stored[2].event_type = SHALLOW_ENGAGEMENT

(***************************************************************************)
(* SpecUsers: requests for two users in any order, arriving within the     *)
(* same second.  A tick of analyze_focus calls infer_learning_event,       *)
(* log_decision, generate_focus_plan and adapt_plan for its user.  Every   *)
(* handler runs to its return without a suspension point (no await in      *)
(* analyze_focus, the plan endpoints or the orchestrator), so requests     *)
(* interleave as whole handlers.                                           *)
(***************************************************************************)
\* events stored per user in SpecUsers
MaxUserTicks == 2

\* the trigger of the plan requests in SpecUsers
PhoneUse == [distraction_type |-> "phone_use", event_type |-> None]

NextUsers ==
    \/ \E u \in Users, face \in BOOLEAN : AnalyzeFrame(u, face, 0, MaxUserTicks)
    \/ \E u \in Users : InferLearningEvent(u, ScenarioSignals, MaxUserTicks)
    \/ \E u \in Users : AdaptFocusPlan(u, PhoneUse, 0)

SpecUsers == InitLazy /\ [][NextUsers]_vars

\* everything the stores hold for the user (absent records as absent)
RecordsOf(sm, ev, dl, u) ==
    [model |-> Restrict(sm, {u}), events |-> Restrict(ev, {u}), decisions |-> Restrict(dl, {u})]

\* the users whose student model holds a focus plan
PlanHolders(sm) == {u \in DOMAIN sm : "current_focus_plan" \in DOMAIN sm[u]}

\* every stored plan was generated for its holder, and no two holders' plans are
\* one plan (plan ids are drawn once per generated plan)
PlansUnshared(sm) ==
    /\ \A u \in PlanHolders(sm) : sm[u].current_focus_plan.user_id = u
    /\ \A u, v \in PlanHolders(sm) :
          u # v => sm[u].current_focus_plan.id # sm[v].current_focus_plan.id

(***************************************************************************)
(* C23: a request for one user leaves the student model, the focus plan,   *)
(* the decision log and the learning events of every other user exactly as *)
(* they were, in any interleaving of requests for different users; and no  *)
(* focus plan is held by the student models of two users.                  *)
(***************************************************************************)
C23_OtherUsersUntouched ==
    [][/\ \A v \in Users \ {response'.user_id} :
            RecordsOf(STUDENT_MODELS', LEARNING_EVENTS', DECISION_LOGS', v)
              = RecordsOf(STUDENT_MODELS, LEARNING_EVENTS, DECISION_LOGS, v)
       /\ PlansUnshared(STUDENT_MODELS')]_vars

\* u2 served last, both users holding a plan, events and a log, the two logs
\* written in turns
C23_Witness ==
    /\ response.op = "analyze_focus"
    /\ response.user_id = "u2"
    /\ PlanHolders(STUDENT_MODELS) = {"u1", "u2"}
    /\ Len(LogsOf(DECISION_LOGS, "u1")) >= 2
    /\ Len(LogsOf(DECISION_LOGS, "u2")) >= 2
    /\ Len(EventsOf(LEARNING_EVENTS, "u1")) = 2
    /\ Len(EventsOf(LEARNING_EVENTS, "u2")) = 2
    /\ NewestDecision(DECISION_LOGS, "u1").id > LogsOf(DECISION_LOGS, "u2")[1].id

(***************************************************************************)
(* SpecRace: concurrent requests to analyze_focus.  The server accepts a   *)
(* request (a task of the event loop) while others are still waiting to    *)
(* run; the loop then runs one waiting task up to its next suspension      *)
(* point.  analyze_focus is a coroutine without any await between its      *)
(* first read of STUDENT_MODELS and its return, and log_decision only      *)
(* schedules a task (create_task) without yielding, so the loop runs the   *)
(* whole handler in one piece.                                             *)
(***************************************************************************)
\* requests waiting to run at once, and events stored per user, in SpecRace
MaxInFlight == 2
MaxRaceTicks == 4

\* the suspension points of the handler's body: none
AwaitPoints_BeforeWrite == {"before_write"}

AwaitPoints == {}

\* s without its i-th element
RemoveAt(s, i) == SubSeq(s, 1, i - 1) \o SubSeq(s, i + 1, Len(s))

\* the server accepts a request for u
AcceptRequest(u, face) ==
    /\ Len(pending) < MaxInFlight
    /\ Len(EventsOf(LEARNING_EVENTS, u)) + Len(pending) < MaxRaceTicks
    /\ pending' = Append(pending, [user_id |-> u, face |-> face, accepted_at |-> now,
                                   suspended |-> FALSE, computed |-> <<>>])
    /\ UNCHANGED <<STUDENT_MODELS, LEARNING_EVENTS, DECISION_LOGS, next_uuid, now,
                   response, request_plan, world_vars>>

\* the event loop runs the i-th waiting task up to its next suspension point, or
\* to its return, dt seconds after the previous step
RunTask(i, dt) ==
    /\ i \in 1..Len(pending)
    /\ now + dt <= StartTime + Horizon
    /\ now' = now + dt
    /\ LET task == pending[i]
           result == IF task.suspended THEN task.computed
                     ELSE AnalyzeBody(STUDENT_MODELS, LEARNING_EVENTS, DECISION_LOGS,
                                      next_uuid, task.user_id, task.face, now + dt)
       IN  IF ~task.suspended /\ "before_write" \in AwaitPoints
             THEN /\ pending' = [pending EXCEPT ![i].suspended = TRUE,
                                                ![i].computed = result]
                  /\ UNCHANGED <<STUDENT_MODELS, LEARNING_EVENTS, DECISION_LOGS,
                                 next_uuid, response>>
             ELSE /\ Install(result)
                  /\ pending' = RemoveAt(pending, i)
    /\ UNCHANGED <<request_plan, world_vars>>

NextRace ==
    \/ \E u \in CoreUsers, face \in BOOLEAN : AcceptRequest(u, face)
    \/ \E i \in 1..MaxInFlight, dt \in Deltas : RunTask(i, dt)

SpecRace == Init /\ [][NextRace]_vars

\* a waiting task leaves the queue: the loop has run it to its return
TaskReturns == pending' \in {RemoveAt(pending, i) : i \in 1..Len(pending)}

\* the frontend keeps posting frames, and the loop runs every task that is ready
SpecRaceFair ==
    /\ SpecRace
    /\ WF_vars(\E u \in CoreUsers, face \in BOOLEAN : AcceptRequest(u, face))
    /\ WF_pending(TaskReturns)

stores == <<STUDENT_MODELS, LEARNING_EVENTS, DECISION_LOGS, next_uuid>>

\* this step is the whole handler of one waiting request, applied to the stores as
\* the previous step left them
WholeHandlerStep ==
    \E i \in 1..Len(pending) :
        LET result == AnalyzeBody(STUDENT_MODELS, LEARNING_EVENTS, DECISION_LOGS,
                                  next_uuid, pending[i].user_id, pending[i].face, now')
        IN  /\ STUDENT_MODELS' = result.STUDENT_MODELS
            /\ LEARNING_EVENTS' = result.LEARNING_EVENTS
            /\ DECISION_LOGS' = result.DECISION_LOGS
            /\ next_uuid' = result.next_uuid
            /\ response' = result.response
            /\ pending' = RemoveAt(pending, i)

\* this step writes to the stores, or answers a request, other than as one whole
\* handler would on the stores it finds: the writes of two requests are interleaved
InterleavedStep ==
    /\ <<stores, response>>' # <<stores, response>>
    /\ ~WholeHandlerStep

\* the task was suspended inside the handler and the values it computed from what
\* it read are no longer those the stores give: another request has written since
StaleRead(task) ==
    /\ task.suspended
    /\ task.computed # AnalyzeBody(STUDENT_MODELS, LEARNING_EVENTS, DECISION_LOGS, next_uuid,
                                   task.user_id, task.face, task.computed.response.time)

MaxLogTicks == 1

NextLog ==
    \/ \E u \in Users : CreateFocusPlan(u, 25, <<>>, 0)
    \/ \E u \in Users : AdaptFocusPlan(u, PhoneUse, 120)
    \/ \E u \in Users : AnalyzeFrame(u, FALSE, 0, MaxLogTicks)

SpecLog == InitLazy /\ [][NextLog]_vars

\* no two Decisions, of one user or of two, carry the same id
UniqueDecisionIds(dl) ==
    \A u, v \in DOMAIN dl :
        \A i \in 1..Len(dl[u]), j \in 1..Len(dl[v]) :
            (u # v \/ i # j) => dl[u][i].id # dl[v][j].id

\* the user's list after the step is the list before it with n Decisions appended
AppendedTo(u, n) ==
    /\ Len(LogsOf(DECISION_LOGS', u)) = Len(LogsOf(DECISION_LOGS, u)) + n
    /\ SubSeq(LogsOf(DECISION_LOGS', u), 1, Len(LogsOf(DECISION_LOGS, u)))
         = LogsOf(DECISION_LOGS, u)

(***************************************************************************)
(* C25: a call of log_decision appends exactly one Decision, for the given *)
(* user and with the current timestamp, to the end of that user's list,    *)
(* and leaves every other list and store as it was; no operation modifies, *)
(* reorders or removes a logged Decision, so no list ever gets shorter;    *)
(* and no two Decisions of any users share an id.                          *)
(***************************************************************************)
C25_DecisionLogAppendOnly ==
    [][/\ \A u \in Users : \E n \in 0..3 : AppendedTo(u, n)
       /\ \A v \in Users \ {response'.user_id} : AppendedTo(v, 0)
       /\ response'.op = "create_focus_plan"
            => LET u == response'.user_id
               IN  /\ AppendedTo(u, 1)
                   /\ NewestDecision(DECISION_LOGS', u).action = "generate_focus_plan"
                   /\ NewestDecision(DECISION_LOGS', u).user_id = u
                   /\ NewestDecision(DECISION_LOGS', u).timestamp = now'
                   /\ UNCHANGED <<STUDENT_MODELS, LEARNING_EVENTS>>
       /\ (AdaptCall /\ request_plan' # request_plan)
            => LET u == response'.user_id
               IN  /\ AppendedTo(u, 1)
                   /\ NewestDecision(DECISION_LOGS', u).user_id = u
                   /\ NewestDecision(DECISION_LOGS', u).timestamp = now'
                   /\ UNCHANGED <<STUDENT_MODELS, LEARNING_EVENTS>>
       /\ UniqueDecisionIds(DECISION_LOGS')]_vars

\* both users' lists hold three Decisions, logged in turns, the last one for u1
C25_Witness ==
    /\ response.op = "create_focus_plan"
    /\ response.user_id = "u1"
    /\ Len(LogsOf(DECISION_LOGS, "u1")) = 3
    /\ Len(LogsOf(DECISION_LOGS, "u2")) = 3
    /\ LogsOf(DECISION_LOGS, "u1")[1].id < LogsOf(DECISION_LOGS, "u2")[1].id
    /\ LogsOf(DECISION_LOGS, "u2")[3].id < LogsOf(DECISION_LOGS, "u1")[3].id
    /\ LogsOf(DECISION_LOGS, "u1")[1].action = "detect_distraction"

(***************************************************************************)
(* SpecTeach: the teaching-readiness query over histories of every kind of *)
(* event, longer than the 5 events it looks back on.  The events are       *)
(* stored by the classifier from signals of four kinds: no face, overload, *)
(* shallow engagement, and sustained focus (stored as recovery after a     *)
(* distraction).                                                           *)
(***************************************************************************)
\* events stored per user in SpecTeach
MaxTeachEvents == 6

ShallowSignals ==
    [face_present |-> TRUE, eyes_open |-> TRUE, gaze_stable |-> TRUE,
     distraction_level |-> 0, time_on_content |-> 5, interaction_count |-> 1]

TeachSignals == RecoverySignals \cup {ShallowSignals}

NextTeach ==
    \/ \E u \in CoreUsers, signals \in TeachSignals :
          InferLearningEvent(u, signals, MaxTeachEvents)
    \/ \E u \in CoreUsers : CheckTeachingReadiness(u)

SpecTeach == Init /\ [][NextTeach]_vars

\* the positions of the user's last 5 stored events
LastFive(u) ==
    {i \in 1..Len(EventsOf(LEARNING_EVENTS, u)) : i > Len(EventsOf(LEARNING_EVENTS, u)) - 5}

\* one of the user's last 5 events is of the type
RecentlySeen(u, type) ==
    \E i \in LastFive(u) : EventsOf(LEARNING_EVENTS, u)[i].event_type = type

\* the number of distraction-type events among the user's last 5
RecentDistractions(u) ==
    Cardinality({i \in LastFive(u) :
                    EventsOf(LEARNING_EVENTS, u)[i].event_type
                        \in {DISTRACTION_PHONE, DISTRACTION_ENVIRONMENT}})

\* the answer of the first rule that applies, in the claimed order
TeachingRule(u) ==
    CASE RecentlySeen(u, COGNITIVE_OVERLOAD) -> <<FALSE, ReasonOverload>>
      [] ~RecentlySeen(u, COGNITIVE_OVERLOAD) /\ RecentDistractions(u) >= 2
           -> <<FALSE, ReasonDistracted>>
      [] ~RecentlySeen(u, COGNITIVE_OVERLOAD) /\ RecentDistractions(u) < 2
           /\ RecentlySeen(u, SUSTAINED_FOCUS)
           -> <<TRUE, ReasonFocus>>
      [] ~RecentlySeen(u, COGNITIVE_OVERLOAD) /\ RecentDistractions(u) < 2
           /\ ~RecentlySeen(u, SUSTAINED_FOCUS) /\ RecentlySeen(u, RECOVERY)
           -> <<TRUE, ReasonRecovered>>
      [] OTHER -> <<FALSE, ReasonInsufficient>>

(***************************************************************************)
(* C26: should_teach answers from the user's last 5 learning events alone, *)
(* by the first rule that applies: any COGNITIVE_OVERLOAD, false; two or   *)
(* more distraction events, false; any SUSTAINED_FOCUS, true; any          *)
(* RECOVERY, true; otherwise false.  It answers false for a user without   *)
(* events, and it changes no state.                                        *)
(***************************************************************************)
C26_TeachingReadiness ==
    [][response'.op = "should_teach"
         => LET u == response'.user_id
            IN  /\ <<response'.ready_for_teaching, response'.reason>> = TeachingRule(u)
                /\ EventsOf(LEARNING_EVENTS, u) = <<>> => ~response'.ready_for_teaching
                /\ UNCHANGED <<STUDENT_MODELS, LEARNING_EVENTS, DECISION_LOGS, next_uuid,
                               request_plan>>]_vars

\* an overload six events back and a single distraction among the last five, followed
\* by a recovery: ready, with the recovery as the reason
C26_Witness ==
    LET stored == EventsOf(LEARNING_EVENTS, "u1")
    IN  /\ response.op = "should_teach"
        /\ Len(stored) = 6
        /\ stored[1].event_type = COGNITIVE_OVERLOAD
        /\ stored[2].event_type = DISTRACTION_ENVIRONMENT
        /\ stored[3].event_type = RECOVERY
        /\ \A i \in 4..6 : stored[i].event_type = SHALLOW_ENGAGEMENT
        /\ response.ready_for_teaching
        /\ response.reason = ReasonRecovered

\* every stored learning event of the user came from analyze_focus's signals
OnlyTickEvents(u) ==
    \A i \in 1..Len(EventsOf(LEARNING_EVENTS, u)) :
        LET event == EventsOf(LEARNING_EVENTS, u)[i]
        IN  /\ event.event_type \in {DISTRACTION_ENVIRONMENT, None}
            /\ event.evidence.time_on_content = 30
            /\ event.evidence.interaction_count = 1

(***************************************************************************)
(* C27: when only analyze_focus ticks run, every learning event is         *)
(* DISTRACTION_ENVIRONMENT or has no type (time_on_content is always 30    *)
(* and interaction_count always 1), and teaching_ready is false on every   *)
(* tick.                                                                   *)
(***************************************************************************)
C27_TicksNeverTeach ==
    /\ \A u \in DOMAIN LEARNING_EVENTS : OnlyTickEvents(u)
    /\ response.op = "analyze_focus"
         => /\ ~response.teaching_ready
            /\ response.learning_event.event_type \in {DISTRACTION_ENVIRONMENT, None}

\* a focused tick (face majority, stable gaze) after a distraction, which the classifier
\* leaves without a type, and with fewer than two distractions among the last five events
C27_Witness ==
    LET stored == EventsOf(LEARNING_EVENTS, "u1")
    IN  /\ response.op = "analyze_focus"
        /\ "error" \notin DOMAIN response
        /\ ~response.distraction_detected
        /\ Len(stored) = 7
        /\ stored[1].event_type = DISTRACTION_ENVIRONMENT
        /\ \A i \in 2..7 : stored[i].event_type = None
        /\ stored[7].evidence.face_present
        /\ stored[7].evidence.gaze_stable
        /\ ~response.teaching_ready

(***************************************************************************)
(* SpecGenerated: plans made by generate_focus_plan for goals of every     *)
(* size and then changed by adapt_plan only, each call made once the       *)
(* cooldown of the one before has passed; distracted ticks raise the       *)
(* user's distraction_count and keep a plan of their own in the model.     *)
(***************************************************************************)
\* calls of generate_focus_plan and adapt_plan in SpecGenerated
MaxPlanCalls == 3
\* analyze_focus ticks per user in SpecGenerated
MaxGenTicks == 4

\* seconds between two calls: the cooldown of adapt_plan
CallGap == 120

GenGoals == {-5, 5, 12, 60}

\* one trigger for each rule of adapt_plan
RuleTriggers ==
    {[distraction_type |-> "phone_use", event_type |-> None],
     [distraction_type |-> "looking_away", event_type |-> None],
     [distraction_type |-> None, event_type |-> COGNITIVE_OVERLOAD],
     [distraction_type |-> None, event_type |-> SUSTAINED_FOCUS]}

\* AntiGravityOrchestrator.generate_focus_plan(user_id, goal_minutes): the caller keeps
\* the plan
GeneratePlanCall(u, goal_minutes) ==
    /\ now + CallGap <= StartTime + MaxPlanCalls * CallGap
    /\ now' = now + CallGap
    /\ LET made == generate_focus_plan(STUDENT_MODELS, DECISION_LOGS, next_uuid,
                                       u, goal_minutes, now + CallGap)
       IN  /\ DECISION_LOGS' = made.DECISION_LOGS
           /\ next_uuid' = made.next_uuid
           /\ request_plan' = made.plan
    /\ response' = [op |-> "generate_focus_plan", user_id |-> u, time |-> now + CallGap]
    /\ UNCHANGED <<STUDENT_MODELS, LEARNING_EVENTS>>
    /\ UNCHANGED <<in_flight, world_vars>>

\* AntiGravityOrchestrator.adapt_plan(user_id, plan, trigger_event) on the plan the
\* caller keeps
AdaptPlanCall(u, trigger_event) ==
    /\ "id" \in DOMAIN request_plan
    /\ now + CallGap <= StartTime + MaxPlanCalls * CallGap
    /\ now' = now + CallGap
    /\ LET adapted == adapt_plan(STUDENT_MODELS, DECISION_LOGS, next_uuid, u,
                                 request_plan, trigger_event, now + CallGap)
       IN  /\ DECISION_LOGS' = adapted.DECISION_LOGS
           /\ next_uuid' = adapted.next_uuid
           /\ request_plan' = adapted.plan
    /\ response' = [op |-> "adapt_plan", user_id |-> u, time |-> now + CallGap]
    /\ UNCHANGED <<STUDENT_MODELS, LEARNING_EVENTS>>
    /\ UNCHANGED <<in_flight, world_vars>>

NextGenerated ==
    \/ \E u \in CoreUsers, g \in GenGoals : GeneratePlanCall(u, g)
    \/ \E u \in CoreUsers, trigger \in RuleTriggers : AdaptPlanCall(u, trigger)
    \/ \E u \in CoreUsers : AnalyzeFrame(u, FALSE, 0, MaxGenTicks)

SpecGenerated == Init /\ [][NextGenerated]_vars

\* the plan's break interval is no longer than its focus block
BreakWithinDuration(plan) ==
    "id" \in DOMAIN plan
        => plan.break_interval_minutes <= plan.recommended_duration_minutes

(***************************************************************************)
(* C28: in a plan made by generate_focus_plan, for any goal_minutes, and   *)
(* changed since by adapt_plan calls only, break_interval_minutes never    *)
(* exceeds recommended_duration_minutes.                                   *)
(***************************************************************************)
C28_BreakWithinDuration ==
    /\ BreakWithinDuration(request_plan)
    /\ \A u \in Users : BreakWithinDuration(ModelPlan(STUDENT_MODELS, u))

\* a generated plan decomposed and then shortened for phone use, its break interval now
\* equal to its duration; the plan of the student model decomposed as well
C28_Witness ==
    /\ "id" \in DOMAIN request_plan
    /\ Len(AdaptationsOf(request_plan)) = 2
    /\ AdaptationsOf(request_plan)[1].type = "decompose_goal"
    /\ AdaptationsOf(request_plan)[2].type = "reduce_focus_time"
    /\ request_plan.recommended_duration_minutes = 10
    /\ request_plan.break_interval_minutes = 10
    /\ NewestAdaptation(ModelPlan(STUDENT_MODELS, "u1")).type = "decompose_goal"
    /\ ModelPlan(STUDENT_MODELS, "u1").break_interval_minutes
         < ModelPlan(STUDENT_MODELS, "u1").recommended_duration_minutes

\* the step is an adapt_plan call on the caller's plan that appended an Adaptation of
\* the type
AppliedTo(type) ==
    /\ response'.op = "adapt_plan"
    /\ Len(AdaptationsOf(request_plan')) = Len(AdaptationsOf(request_plan)) + 1
    /\ NewestAdaptation(request_plan').type = type

(***************************************************************************)
(* C29: an applied adaptation moves recommended_duration_minutes in the    *)
(* direction of its type, whatever the plan it starts from, small          *)
(* generated plans included: reduce_focus_time and decompose_goal never    *)
(* leave it larger than before the call, extend_block never smaller.       *)
(***************************************************************************)
C29_DirectionMatchesType ==
    [][/\ AppliedTo("reduce_focus_time") \/ AppliedTo("decompose_goal")
            => request_plan'.recommended_duration_minutes
                 <= request_plan.recommended_duration_minutes
       /\ AppliedTo("extend_block")
            => request_plan'.recommended_duration_minutes
                 >= request_plan.recommended_duration_minutes]_vars

(***************************************************************************)
(* world_websocket, /ws/world/{user_id}, and broadcast_world_message.      *)
(* A socket is closed, open (its handler waits in receive_json), or dead:  *)
(* the client is gone, every send to it raises, and its handler has not    *)
(* yet seen the disconnect.                                                *)
(***************************************************************************)
WorldUsers == {"u1", "u2"}

\* the positions a player message carries
Positions == {0, 1}

\* del d[k]
Del(d, k) == IF DOMAIN d \subseteq {k} THEN <<>> ELSE Restrict(d, DOMAIN d \ {k})

\* the user ids to which broadcast_world_message fails to send
FailedSends(connections, exclude) ==
    {uid \in DOMAIN connections :
        uid # exclude /\ sockets[connections[uid]].state # "open"}

\* d without the keys in the set
DelAll(d, keys) == IF DOMAIN d \subseteq keys THEN <<>> ELSE Restrict(d, DOMAIN d \ keys)

\* broadcast_world_message: both stores after the clean-up of the failed sends
Broadcast(players, connections, exclude) ==
    [WORLD_PLAYERS |-> DelAll(players, FailedSends(connections, exclude)),
     WORLD_CONNECTIONS |-> DelAll(connections, FailedSends(connections, exclude))]

\* accept, register under user_id (replacing whatever was registered), send the list
Connect(s, u) ==
    /\ sockets[s].state = "closed"
    /\ sockets' = [sockets EXCEPT ![s] = [state |-> "open", user_id |-> u]]
    /\ WORLD_CONNECTIONS' = Put(WORLD_CONNECTIONS, u, s)
    /\ UNCHANGED <<WORLD_PLAYERS, stores, now, response, request_plan, in_flight>>

\* WORLD_PLAYERS after the handler of user_id has taken the message
TakeMessage(players, u, message) ==
    CASE message.type = "player_join" -> Put(players, u, message.player)
      [] message.type = "player_move" ->
           IF u \in DOMAIN players THEN Put(players, u, message.player) ELSE players
      [] message.type = "player_leave" -> Del(players, u)
      [] OTHER -> players

WorldMessages ==
    [type : {"player_join", "player_move"}, player : [x : Positions]]
      \cup {[type |-> "player_leave"], [type |-> "ping"]}

\* one round of the receive loop: the message is taken and broadcast to the others
Receive(s, message) ==
    /\ sockets[s].state = "open"
    /\ LET u == sockets[s].user_id
           taken == TakeMessage(WORLD_PLAYERS, u, message)
           sent == IF message.type = "ping"
                     THEN [WORLD_PLAYERS |-> taken, WORLD_CONNECTIONS |-> WORLD_CONNECTIONS]
                     ELSE Broadcast(taken, WORLD_CONNECTIONS, u)
       IN  /\ WORLD_PLAYERS' = sent.WORLD_PLAYERS
           /\ WORLD_CONNECTIONS' = sent.WORLD_CONNECTIONS
    /\ UNCHANGED <<sockets, stores, now, response, request_plan, in_flight>>

\* the client of an open socket goes away
ClientDrops(s) ==
    /\ sockets[s].state = "open"
    /\ sockets' = [sockets EXCEPT ![s].state = "dead"]
    /\ UNCHANGED <<WORLD_PLAYERS, WORLD_CONNECTIONS, stores, now, response, request_plan,
                   in_flight>>

\* receive_json raises WebSocketDisconnect: the finally block removes both entries of
\* user_id and broadcasts the leave
Disconnect(s) ==
    /\ sockets[s].state = "dead"
    /\ LET u == sockets[s].user_id
           sent == Broadcast(Del(WORLD_PLAYERS, u), Del(WORLD_CONNECTIONS, u), u)
       IN  /\ WORLD_PLAYERS' = sent.WORLD_PLAYERS
           /\ WORLD_CONNECTIONS' = sent.WORLD_CONNECTIONS
    /\ sockets' = [sockets EXCEPT ![s] = [state |-> "closed"]]
    /\ UNCHANGED <<stores, now, response, request_plan, in_flight>>

NextWorld ==
    \/ \E s \in Sockets, u \in WorldUsers : Connect(s, u)
    \/ \E s \in Sockets, message \in WorldMessages : Receive(s, message)
    \/ \E s \in Sockets : ClientDrops(s)
    \/ \E s \in Sockets : Disconnect(s)

SpecWorld == Init /\ [][NextWorld]_vars

\* the socket is the one registered under its user id
Registered(connections, s) ==
    /\ sockets[s].user_id \in DOMAIN connections
    /\ connections[sockets[s].user_id] = s

\* this step is the disconnect of a socket other than s
OtherDisconnects(s) ==
    \E t \in Sockets \ {s} : sockets[t].state = "dead" /\ sockets'[t].state = "closed"

(***************************************************************************)
(* C30: whatever the interleaving of connects, player messages, failed     *)
(* broadcasts and disconnects on the world socket, two connections under   *)
(* one user id included, every user in WORLD_PLAYERS has a connection in   *)
(* WORLD_CONNECTIONS, and the disconnect of one connection never           *)
(* unregisters another connection that is still open.                      *)
(***************************************************************************)
C30_PlayersAreConnected ==
    /\ [](DOMAIN WORLD_PLAYERS \subseteq DOMAIN WORLD_CONNECTIONS)
    /\ [][\A s \in Sockets :
            (/\ sockets[s].state = "open"
             /\ Registered(WORLD_CONNECTIONS, s)
             /\ OtherDisconnects(s))
                => Registered(WORLD_CONNECTIONS', s)]_vars

====
